---- MODULE Spec2Model ----
(***************************************************************************)
(* Notebook mode of the Re-Redash extension (src/notebook.js): the query   *)
(* buffer of the main editor, the cell sequence obtained from it by        *)
(* parseQueries, the per-cell editing surfaces, the debounce timer and the *)
(* resynchronisation of the cells into the buffer.                         *)
(*                                                                         *)
(* A text is a sequence of one-character strings.  Cell indices are the    *)
(* 0-based indices of the source; cells[index + 1] is the cell at index.   *)
(***************************************************************************)
EXTENDS Integers, Sequences, FiniteSets, TLC

VARIABLES
    cells,          \* notebookState.cells: sequence of [id, content]
    buffer,         \* notebookState.aceEditor.getValue(): the main editor text
    isNotebookMode, \* notebookState.isNotebookMode
    cellEditors,    \* notebookState.cellEditors: index -> text held by the registered editor
    textareas,      \* fallback textareas in the cell list: data-cell-index -> value
    debounceTimer,  \* notebookState.debounceTimer: <<>> or <<[index, content]>>
    renderPending,  \* the setTimeout(0) calls of createCellElement have not run yet
    now,            \* Date.now()
    windowAce,      \* window.ace is available to the cell editors
    lastOp,         \* the handler that ran last
    idsObserved,    \* the id strings are recorded (no code reads a cell's id)
    pc,             \* position of the function-level harness ("main" in the notebook machine)
    content,        \* harness: argument of parseQueries
    S,              \* harness: sequence of texts given to the Joiner
    joined,         \* harness: buffer after the first Joiner pass
    queries,        \* harness: result of parseQueries
    rejoined,       \* harness: buffer after the second Joiner pass
    writes,         \* harness: number of aceEditor.setValue calls made by the Joiner
    textarea,       \* harness: the fallback textarea given to toggleSQLComment
    textarea0,      \* harness: that textarea before the first call
    nonEmptyCells,  \* runAllCells: the [cell, index] pairs it collected
    executed,       \* runAllCells: per step of the chain, the index given to
                    \* executeCell and the id of the cell executed, NoCell for none
    poll,           \* one retry loop: its name, the calls made, its retryCount, a call
                    \* is scheduled, the page holds its target, a call has found it
    saver,          \* inject.js: [aceEditor, isListenerAttached, debounceTimer,
                    \* pasteTimer, writes] of the query saver
    savedQuery,     \* localStorage["re-redash-query"]: <<>> or <<text>>
    quickSearchState, \* quick-search.js: [isOpen, filteredTables, selectedIndex]
    executedQuery,  \* the queries given to executeTableQuery of the notebook module
    columnVisibilityState, \* quick-search.js: [hiddenColumns, debounceTimer] and, as
                    \* table, the header cells of the result table in the page
    completionData, \* quick-search.js: [isLoaded, allCompletions] and, as cache,
                    \* localStorage["re-redash-completions"]
    dataSourceMonitoring, \* quick-search.js: [currentDataSource, refreshTimeout],
                    \* the number of changes seen and the fetches in flight
    uiObserved,     \* input focus, command arguments and calls without effect are recorded
    aceEditor,      \* notebookState.aceEditor is set
    editorInPage,   \* the page holds an editor that findAceEditor detects
    containerAttached, \* notebookState.originalContainer.parentNode is not null
    notebookInserted,  \* notebookState.notebookContainer.parentNode is not null
    originalDisplay,   \* notebookState.originalContainer.style.display
    notebookDisplay,   \* notebookState.notebookContainer.style.display
    preference,     \* localStorage["re-redash-notebook-mode"]: "none", "true" or "false"
    storageOk,      \* localStorage accepts reads and writes
    focus,          \* index of the cell whose editing surface holds input focus, or NoFocus
    focusTimer,     \* pending setTimeout of a focus request: <<>> or <<[op, target]>>
    lastArg,        \* position or index given to the command that ran last
    initPc,         \* position of initNotebook: "tryInitialize", "restore" or "done"
    retryCount,     \* retryCount of initNotebook
    savedPreference, \* savedPreference of tryInitialize, "unread" before it is read
    loads,          \* number of calls of loadNotebookModePreference
    autoSwitches    \* number of calls of switchToNotebookMode made by tryInitialize

uiVars == <<aceEditor, editorInPage, containerAttached, notebookInserted,
            originalDisplay, notebookDisplay, preference, storageOk>>

focusVars == <<focus, focusTimer, lastArg>>

initVars == <<initPc, retryCount, savedPreference, loads, autoSwitches>>

runVars == <<nonEmptyCells, executed>>

\* the column toggles of the result table and the completion data
resultVars == <<columnVisibilityState, completionData, dataSourceMonitoring>>

\* the page state that no handler of the notebook touches: the retry loops,
\* the stored query, the palette, the column toggles and the completion data
besideVars == <<poll, savedQuery, quickSearchState, executedQuery, resultVars>>

harnessVars == <<pc, content, S, joined, queries, rejoined, writes, textarea, textarea0>>

vars == <<cells, buffer, isNotebookMode, cellEditors, textareas, debounceTimer,
          renderPending, now, windowAce, lastOp, idsObserved, uiObserved,
          uiVars, focusVars, initVars, harnessVars, runVars, saver, besideVars>>

\* the notebook, its page and its startup
notebookVars == <<cells, buffer, isNotebookMode, cellEditors, textareas,
                  debounceTimer, renderPending, now, windowAce, idsObserved,
                  uiObserved, uiVars, focusVars, initVars>>

mainVars == <<cells, buffer, isNotebookMode, cellEditors, textareas,
              debounceTimer, renderPending, now, windowAce, lastOp, idsObserved,
              uiObserved, uiVars, focusVars, initVars, runVars, saver,
              besideVars>>

(***************************************************************************)
(* Bounds                                                                  *)
(***************************************************************************)
MaxCells == 3

MaxClock == 1

MaxLen == 5

MaxFrag == 2

\* the calls followed of a retry loop that has no budget of its own
MaxPolls == 24

\* the calls of initNotebook followed, the one made when the script loads included
MaxInits == 2

\* data-source changes in one run
MaxChanges == 2

(***************************************************************************)
(* Texts                                                                   *)
(***************************************************************************)
querySeparator == ";"

Whitespace == {" ", "\n"}

Alphabet == {"a", "b", " ", "\n", ";"}

FragAlphabet == {"a", " "}

Texts(chars, n) == UNION {[1..k -> chars] : k \in 0..n}

EmptyText == <<>>

NoEditors == [i \in {} |-> EmptyText]

NoPosition == -1

NoTextarea == [value |-> EmptyText, selectionStart |-> 0, selectionEnd |-> 0]

\* no retry loop is running
NoPoll == [loop |-> "none", attempts |-> 0, retryCount |-> 0, timer |-> FALSE,
           target |-> FALSE, found |-> FALSE]

\* the query saver before setupQuerySaver has found the editor
NoSaver == [aceEditor |-> FALSE, isListenerAttached |-> FALSE,
            debounceTimer |-> <<>>, pasteTimer |-> FALSE, writes |-> 0]

\* the palette as createQuickSearchModal and closeQuickSearch leave it
ClosedQuickSearch == [isOpen |-> FALSE, filteredTables |-> <<>>, selectedIndex |-> -1]

RECURSIVE trimStart(_)
trimStart(s) ==
    IF s = <<>> THEN s
    ELSE IF Head(s) \in Whitespace THEN trimStart(Tail(s)) ELSE s

RECURSIVE trimEnd(_)
trimEnd(s) ==
    IF s = <<>> THEN s
    ELSE IF s[Len(s)] \in Whitespace THEN trimEnd(SubSeq(s, 1, Len(s) - 1)) ELSE s

trim(s) == trimEnd(trimStart(s))

\* String.prototype.split with a one-character separator
RECURSIVE split(_, _)
split(s, sep) ==
    IF \A k \in 1..Len(s) : s[k] # sep THEN <<s>>
    ELSE LET k == CHOOSE j \in 1..Len(s) :
                      s[j] = sep /\ \A h \in 1..(j - 1) : s[h] # sep
         IN  <<SubSeq(s, 1, k - 1)>> \o split(SubSeq(s, k + 1, Len(s)), sep)

\* Array.prototype.join
RECURSIVE join(_, _)
join(parts, sep) ==
    IF parts = <<>> THEN <<>>
    ELSE IF Len(parts) = 1 THEN parts[1]
    ELSE parts[1] \o sep \o join(Tail(parts), sep)

map(f(_), seq) == [i \in 1..Len(seq) |-> f(seq[i])]

nonEmpty(s) == Len(s) > 0

\* the id string of a cell: cell_<Date.now()> or cell_<Date.now()>_<index>
cellId(parts) == IF idsObserved THEN parts ELSE <<>>

(***************************************************************************)
(* parseQueries                                                            *)
(***************************************************************************)
parseQueries_nofilter(text, t) ==
    IF text = <<>> \/ trim(text) = <<>> THEN <<>>
    ELSE LET trimmed == map(trim, split(text, querySeparator))
         IN  [i \in 1..Len(trimmed) |->
                 [id |-> cellId(<<t, i - 1>>), content |-> trimmed[i]]]

parseQueries_notrim(text, t) ==
    IF text = <<>> \/ trim(text) = <<>> THEN <<>>
    ELSE LET kept == SelectSeq(split(text, querySeparator), nonEmpty)
         IN  [i \in 1..Len(kept) |->
                 [id |-> cellId(<<t, i - 1>>), content |-> kept[i]]]

parseQueries_terminated(text, t) ==
    IF text = <<>> \/ trim(text) = <<>> THEN <<>>
    ELSE LET frags == split(text, querySeparator)
             kept == SelectSeq(map(trim, SubSeq(frags, 1, Len(frags) - 1)), nonEmpty)
         IN  [i \in 1..Len(kept) |->
                 [id |-> cellId(<<t, i - 1>>), content |-> kept[i]]]

parseQueries(text, t) ==
    IF text = <<>> \/ trim(text) = <<>> THEN <<>>
    ELSE LET kept == SelectSeq(map(trim, split(text, querySeparator)), nonEmpty)
         IN  [i \in 1..Len(kept) |->
                 [id |-> cellId(<<t, i - 1>>), content |-> kept[i]]]

(***************************************************************************)
(* syncCellsToAceEditor                                                    *)
(***************************************************************************)
\* the content the Joiner reads for the cell at index (0-based)
cellContents(cs, editors) ==
    [i \in 1..Len(cs) |->
        IF (i - 1) \in DOMAIN editors THEN trim(editors[i - 1])
        ELSE trim(cs[i].content)]

fullContent_keepEmpty(cs, editors) ==
    join(cellContents(cs, editors), <<";", "\n", "\n">>)

fullContent(cs, editors) ==
    join(SelectSeq(cellContents(cs, editors), nonEmpty), <<";", "\n", "\n">>)

setValueCalled_always(cs, editors, mode, current) == mode

\* syncCellsToAceEditor calls aceEditor.setValue
setValueCalled(cs, editors, mode, current) ==
    mode /\ current # fullContent(cs, editors)

syncCellsToAceEditor_skipped(cs, editors, mode, current) == current

\* the value of the main editor after a call of syncCellsToAceEditor
syncCellsToAceEditor(cs, editors, mode, current) ==
    IF ~mode THEN current
    ELSE LET full == fullContent(cs, editors)
         IN  IF current # full THEN full ELSE current

(***************************************************************************)
(* Cell sequence operations                                                *)
(***************************************************************************)
insertAt(cs, position, cell) ==
    SubSeq(cs, 1, position) \o <<cell>> \o SubSeq(cs, position + 1, Len(cs))

removeAt(cs, index) ==
    SubSeq(cs, 1, index) \o SubSeq(cs, index + 2, Len(cs))

\* the cells after addNewCell(position) has spliced or pushed the new cell
addedCells(cs, position, t) ==
    LET newCell == [id |-> cellId(<<t>>), content |-> EmptyText]
    IN  IF position # NoPosition /\ position >= 0 /\ position < Len(cs)
        THEN insertAt(cs, position, newCell)
        ELSE Append(cs, newCell)

renderedCells_noEmptyCell(cs, t) == cs

\* the cells after renderCells: an empty sequence gets one cell from addNewCell()
renderedCells(cs, t) ==
    IF Len(cs) = 0 THEN addedCells(cs, NoPosition, t) ELSE cs

enteredCells_keepOld(old, text, t) ==
    IF old # <<>> THEN old ELSE renderedCells(parseQueries(text, t), t)

\* the cells after switchToNotebookMode
enteredCells(old, text, t) == renderedCells(parseQueries(text, t), t)

\* the text a fallback textarea shows for a cell content written between its tags
textareaValue(text) ==
    IF text # <<>> /\ Head(text) = "\n" THEN Tail(text) ELSE text

(***************************************************************************)
(* Mode, surfaces, preference and focus                                    *)
(***************************************************************************)
NoFocus == -1

maxRetries == 10

\* a value that is recorded only where the user interface is observed
observed(x, unobserved) == IF uiObserved THEN x ELSE unobserved

\* the result of findAceEditor()
findAceEditor(inPage) == inPage

editorMissing_never(handle, inPage) == FALSE

\* switchToNotebookMode: no handle is stored and none is found again
editorMissing(handle, inPage) == ~handle /\ ~findAceEditor(inPage)

saveNotebookModePreference_dropped(store, ok, mode) == store

\* localStorage after saveNotebookModePreference(mode)
saveNotebookModePreference(store, ok, mode) ==
    IF ok THEN (IF mode THEN "true" ELSE "false") ELSE store

loadNotebookModePreference_none(store, ok) == "none"

\* the result of loadNotebookModePreference(): "none" stands for null
loadNotebookModePreference(store, ok) == IF ok THEN store ELSE "none"

indexInRange_upTo(index, n) == index >= 0 /\ index <= n

\* the bounds check of deleteCell
indexInRange(index, n) == index >= 0 /\ index < n

focusIndex_previous(index, totalCells) ==
    IF totalCells > 1 THEN index - 1 ELSE -1

\* deleteCell: the index to focus after the deletion, -1 for none
focusIndex(index, totalCells) ==
    IF totalCells > 1 THEN (IF index > 0 THEN index - 1 ELSE 0) ELSE -1

\* the key of the k-th value (from 0) of Object.values(editors), or NoFocus
objectValuesKey(editors, k) ==
    LET keys == DOMAIN editors
    IN  IF \E i \in keys : Cardinality({j \in keys : j < i}) = k
        THEN CHOOSE i \in keys : Cardinality({j \in keys : j < i}) = k
        ELSE NoFocus

\* the focused cell after focusCell(index)
focusCell(index, n, editors, areas, current) ==
    IF index < 0 \/ index >= n THEN current
    ELSE IF index \in DOMAIN editors THEN index
    ELSE IF index \in DOMAIN areas THEN index
    ELSE current

\* the focused cell after the focus callback of addNewCell(position)
focusAfterAdd(position, areas, current) ==
    LET targetIndex == IF position # NoPosition THEN position
                       ELSE Cardinality(DOMAIN areas) - 1
    IN  IF targetIndex \in DOMAIN areas THEN targetIndex ELSE current

\* the focused cell after the focus callback of copyCell
focusAfterCopy(insertPosition, n, editors, current) ==
    LET key == objectValuesKey(editors, insertPosition)
    IN  IF key # NoFocus /\ key < n THEN key ELSE current

\* the focus request left by renderCells: addNewCell() when there is no cell
renderFocusTimer(cs, command) ==
    IF Len(cs) = 0
    THEN <<[op |-> "addNewCell", target |-> NoPosition, command |-> command]>>
    ELSE <<>>

\* the name recorded when the focus callback left by a command has run
focusLabel(command) ==
    IF command = "addNewCell" THEN "focus:addNewCell"
    ELSE IF command = "copyCell" THEN "focus:copyCell"
    ELSE IF command = "deleteCell" THEN "focus:deleteCell"
    ELSE "focus:switchToNotebookMode"

(***************************************************************************)
(* toggleSQLComment                                                        *)
(***************************************************************************)
commentToken == <<"-", "-">>

\* the text of the fallback textarea is drawn from these characters
CommentAlphabet == {"a", "-", " ", "\n"}

\* String.prototype.startsWith
startsWith(s, prefix) ==
    Len(s) >= Len(prefix) /\ SubSeq(s, 1, Len(prefix)) = prefix

\* charCount when the loops of toggleSQLComment reach line i (from 0)
RECURSIVE charCount(_, _)
charCount(lines, i) ==
    IF i = 0 THEN 0 ELSE charCount(lines, i - 1) + Len(lines[i]) + 1

\* the first loop of toggleSQLComment: the line that holds the position start
startLine(lines, start) ==
    LET hits == {i \in 0..(Len(lines) - 1) :
                    charCount(lines, i) + Len(lines[i + 1]) + 1 > start}
    IN  IF hits = {} THEN 0 ELSE CHOOSE i \in hits : \A j \in hits : i <= j

endLine_strict(lines, start, end) ==
    LET hits == {i \in 0..(Len(lines) - 1) :
                    charCount(lines, i) + Len(lines[i + 1]) + 1 > end}
    IN  IF start = end THEN startLine(lines, start)
        ELSE IF hits = {} THEN 0 ELSE CHOOSE i \in hits : \A j \in hits : i <= j

\* the second loop of toggleSQLComment and the test start === end
endLine(lines, start, end) ==
    LET hits == {i \in 0..(Len(lines) - 1) :
                    charCount(lines, i) + Len(lines[i + 1]) + 1 >= end}
    IN  IF start = end THEN startLine(lines, start)
        ELSE IF hits = {} THEN 0 ELSE CHOOSE i \in hits : \A j \in hits : i <= j

\* the test of the third loop on the lines from..to (from 0)
allCommented(lines, from, to) ==
    \A i \in from..to :
        LET line == trim(lines[i + 1])
        IN  ~(Len(line) > 0 /\ ~startsWith(line, commentToken))

\* the characters matched by ^(\s*)
leadingSpace(line) == SubSeq(line, 1, Len(line) - Len(trimStart(line)))

uncommentLine_keepSpace(line) ==
    LET rest == trimStart(line)
    IN  IF startsWith(rest, commentToken)
        THEN leadingSpace(line) \o SubSeq(rest, 3, Len(rest))
        ELSE line

\* line.replace(/^(\s*)--\s?/, "$1")
uncommentLine(line) ==
    LET rest == trimStart(line)
        after == SubSeq(rest, 3, Len(rest))
    IN  IF startsWith(rest, commentToken)
        THEN leadingSpace(line) \o
             (IF after # <<>> /\ after[1] \in Whitespace THEN Tail(after) ELSE after)
        ELSE line

\* match[1] + "-- " + match[2] for line.match(/^(\s*)(.*)/)
commentLine(line) ==
    leadingSpace(line) \o commentToken \o <<" ">> \o trimStart(line)

\* the lines after the fourth loop
toggledLines(lines, from, to) ==
    [k \in 1..Len(lines) |->
        IF k - 1 < from \/ k - 1 > to \/ Len(trim(lines[k])) = 0 THEN lines[k]
        ELSE IF allCommented(lines, from, to) THEN uncommentLine(lines[k])
        ELSE commentLine(lines[k])]

max(a, b) == IF a >= b THEN a ELSE b

min(a, b) == IF a <= b THEN a ELSE b

\* the selection a textarea of length len holds after selectionStart = start
\* and then selectionEnd = end have been assigned
setSelection(start, end, len) ==
    LET s == min(start, len)
        e == min(end, len)
    IN  IF e <= s THEN <<e, e>> ELSE <<s, e>>

\* toggleSQLComment(textarea): the textarea when the function returns
toggleSQLComment(area) ==
    LET start == area.selectionStart
        end == area.selectionEnd
        lines == split(area.value, "\n")
        from == startLine(lines, start)
        to == endLine(lines, start, end)
        newContent == join(toggledLines(lines, from, to), <<"\n">>)
        lengthDiff == Len(newContent) - Len(area.value)
        sel == setSelection(max(0, start), max(0, end + lengthDiff), Len(newContent))
    IN  [value |-> newContent, selectionStart |-> sel[1], selectionEnd |-> sel[2]]

(***************************************************************************)
(* The query saver (inject.js)                                             *)
(***************************************************************************)
\* findAceEditor() of the query saver: window.ace and an editor in the page
findAceEditorOfSaver(ace, inPage) == ace /\ inPage

saveQuery_untrimmed(store, ok, query) ==
    IF ok THEN (IF trim(query) # <<>> THEN <<query>> ELSE <<>>) ELSE store

\* localStorage after saveQuery(query): the trimmed text, or no item
saveQuery(store, ok, query) ==
    IF ok THEN (IF trim(query) # <<>> THEN <<trim(query)>> ELSE <<>>) ELSE store

getSavedQuery_unguarded(store, ok) == store

\* getSavedQuery(): <<>> stands for null
getSavedQuery(store, ok) == IF ok THEN store ELSE <<>>

\* debouncedSave(value): the pending save is replaced
debouncedSave(sv, value) == [sv EXCEPT !.debounceTimer = <<value>>]

\* the change listener; writes counts the store writes made since this change
onChange(sv, value) ==
    IF sv.isListenerAttached
    THEN [debouncedSave(sv, value) EXCEPT !.writes = 0]
    ELSE sv

restores_always(handle, saved, current, forceRestore) == handle /\ saved # <<>>

\* restoreSavedQuery(forceRestore) calls aceEditor.setValue(savedQuery)
restores(handle, saved, current, forceRestore) ==
    /\ handle
    /\ saved # <<>>
    /\ saved[1] # <<>>
    /\ (forceRestore \/ trim(current) = <<>>)

\* restoreSavedQuery(forceRestore): setValue fires the change listener
restoreSavedQuery(sv, forceRestore) ==
    LET saved == getSavedQuery(savedQuery, storageOk)
    IN  IF restores(sv.aceEditor, saved, buffer, forceRestore)
        THEN /\ buffer' = saved[1]
             /\ saver' = onChange(sv, saved[1])
        ELSE /\ buffer' = buffer
             /\ saver' = sv

\* attachAceEditorListeners()
attachAceEditorListeners(sv) ==
    IF ~sv.aceEditor \/ sv.isListenerAttached
    THEN sv
    ELSE [sv EXCEPT !.isListenerAttached = TRUE]

\* a handler of the notebook has run: where it wrote the main editor with
\* setValue, the change listener of the query saver has run
mainEditorListeners ==
    saver' = IF buffer' # buffer THEN onChange(saver, buffer') ELSE saver

(***************************************************************************)
(* Inputs                                                                  *)
(***************************************************************************)
\* texts found in, or typed into, the main editor
BufferTexts ==
    { <<" ">>,
      <<" ", "a">>,
      <<"b", ";", "\n", "\n", " ", ";", "a", ";", " ">> }

\* texts typed into a cell
EditTexts == { <<>>, <<"b", " ">> }

Positions == {NoPosition} \cup (0..MaxCells)

\* the indices given to copyCell and deleteCell: those of the buttons and key
\* commands of the cells and, for a direct call, one below and one above
Indices(n) == IF uiObserved THEN (-1)..n ELSE 0..(n - 1)

(***************************************************************************)
(* The notebook machine                                                    *)
(***************************************************************************)
InitCells ==
    /\ cells = <<>>
    /\ buffer \in BufferTexts
    /\ isNotebookMode = FALSE
    /\ cellEditors = NoEditors
    /\ textareas = NoEditors
    /\ debounceTimer = <<>>
    /\ renderPending = FALSE
    /\ now = 0
    /\ windowAce \in BOOLEAN
    /\ lastOp = "init"
    /\ pc = "main"
    /\ content = <<>>
    /\ S = <<>>
    /\ joined = <<>>
    /\ queries = <<>>
    /\ rejoined = <<>>
    /\ writes = 0
    /\ textarea = NoTextarea
    /\ textarea0 = NoTextarea
    /\ nonEmptyCells = <<>>
    /\ executed = <<>>
    /\ quickSearchState = ClosedQuickSearch
    /\ executedQuery = <<>>
    /\ columnVisibilityState = [hiddenColumns |-> {}, debounceTimer |-> FALSE,
                                table |-> <<>>]
    /\ completionData = [isLoaded |-> FALSE, allCompletions |-> "none",
                         cache |-> "none"]
    /\ dataSourceMonitoring = [currentDataSource |-> "mysql", refreshTimeout |-> FALSE,
                               changes |-> 0, fetches |-> {}]
    /\ containerAttached = TRUE
    /\ notebookInserted = FALSE
    /\ originalDisplay = ""
    /\ notebookDisplay = "none"
    /\ focus = NoFocus
    /\ focusTimer = <<>>
    /\ lastArg = NoPosition
    /\ retryCount = 0
    /\ savedPreference = "unread"
    /\ loads = 0
    /\ autoSwitches = 0

\* no retry loop is pending, the query saver is not attached to the editor
InitPage ==
    /\ poll = NoPoll
    /\ saver = NoSaver
    /\ savedQuery = <<>>

\* initNotebook has found the editor; nothing is stored, the store works
InitNotebook ==
    /\ InitCells
    /\ InitPage
    /\ uiObserved = FALSE
    /\ aceEditor = TRUE
    /\ editorInPage = TRUE
    /\ preference = "none"
    /\ storageOk = TRUE
    /\ initPc = "done"

Init == idsObserved = FALSE /\ InitNotebook

InitIds == idsObserved = TRUE /\ InitNotebook

\* initNotebook has been called and tryInitialize has not run yet
InitMode ==
    /\ InitCells
    /\ InitPage
    /\ idsObserved = FALSE
    /\ uiObserved = FALSE
    /\ aceEditor = FALSE
    /\ editorInPage \in BOOLEAN
    /\ preference \in {"none", "true", "false"}
    /\ storageOk \in BOOLEAN
    /\ initPc = "tryInitialize"

\* as InitNotebook, with the ids, the input focus and the command arguments recorded
InitFocus ==
    /\ InitCells
    /\ InitPage
    /\ idsObserved = TRUE
    /\ uiObserved = TRUE
    /\ aceEditor = TRUE
    /\ editorInPage = TRUE
    /\ preference = "none"
    /\ storageOk = TRUE
    /\ initPc = "done"

\* the user changes the text of the main editor (only shown in text mode)
TypeInMainEditor ==
    /\ pc = "main"
    /\ ~isNotebookMode
    /\ ~renderPending
    /\ \E text \in BufferTexts :
          /\ text # buffer
          /\ buffer' = text
          /\ saver' = onChange(saver, text)
    /\ lastOp' = "type"
    /\ UNCHANGED <<cells, isNotebookMode, cellEditors, textareas, debounceTimer,
                   renderPending, now, windowAce>>
    /\ UNCHANGED <<uiVars, focusVars, initVars>>
    /\ UNCHANGED <<idsObserved, uiObserved, harnessVars, runVars>>
    /\ UNCHANGED <<poll, savedQuery, quickSearchState, executedQuery, resultVars>>

\* the body of switchToNotebookMode
enterNotebookMode ==
    IF editorMissing(aceEditor, editorInPage)
    THEN \* alert("Cannot find the query editor ..."); return
         /\ lastOp' = "switchToNotebookMode:alert"
         /\ UNCHANGED <<cells, buffer, isNotebookMode, cellEditors, textareas,
                        renderPending, uiVars, focusVars>>
    ELSE IF ~notebookInserted /\ ~containerAttached
    THEN \* originalContainer.parentNode is null: insertBefore throws, the catch alerts
         /\ cells' = parseQueries(buffer, now)
         /\ originalDisplay' = "none"
         /\ notebookDisplay' = "block"
         /\ aceEditor' = TRUE
         /\ lastOp' = "switchToNotebookMode:error"
         /\ UNCHANGED <<buffer, isNotebookMode, cellEditors, textareas, renderPending,
                        editorInPage, containerAttached, notebookInserted,
                        preference, storageOk, focusVars>>
    ELSE /\ cells' = enteredCells(cells, buffer, now)
         /\ textareas' = NoEditors
         /\ renderPending' = TRUE
         /\ isNotebookMode' = TRUE
         /\ aceEditor' = TRUE
         /\ originalDisplay' = "none"
         /\ notebookDisplay' = "block"
         /\ notebookInserted' = TRUE
         /\ preference' = saveNotebookModePreference(preference, storageOk, TRUE)
         /\ focus' = NoFocus
         /\ focusTimer' = observed(renderFocusTimer(parseQueries(buffer, now),
                                                      "switchToNotebookMode"), <<>>)
         /\ lastOp' = "switchToNotebookMode"
         /\ UNCHANGED <<buffer, cellEditors, editorInPage, containerAttached,
                        storageOk, lastArg>>

\* toggleNotebookMode in TEXT mode
switchToNotebookMode ==
    /\ pc = "main"
    /\ initPc = "done"
    /\ ~isNotebookMode
    /\ ~renderPending
    /\ focusTimer = <<>>
    /\ enterNotebookMode
    /\ UNCHANGED <<debounceTimer, now, windowAce, initVars>>
    /\ mainEditorListeners
    /\ UNCHANGED <<idsObserved, uiObserved, harnessVars, runVars, besideVars>>

\* toggleNotebookMode in NOTEBOOK mode
switchToTextMode ==
    /\ pc = "main"
    /\ initPc = "done"
    /\ isNotebookMode
    /\ ~renderPending
    /\ focusTimer = <<>>
    /\ buffer' = syncCellsToAceEditor(cells, cellEditors, isNotebookMode, buffer)
    /\ cellEditors' = NoEditors
    /\ textareas' = NoEditors
    /\ originalDisplay' = "block"
    /\ notebookDisplay' = "none"
    /\ isNotebookMode' = FALSE
    /\ preference' = saveNotebookModePreference(preference, storageOk, FALSE)
    /\ focus' = NoFocus
    /\ lastOp' = "switchToTextMode"
    /\ UNCHANGED <<cells, debounceTimer, renderPending, now, windowAce>>
    /\ UNCHANGED <<aceEditor, editorInPage, containerAttached, notebookInserted,
                   storageOk, focusTimer, lastArg, initVars>>
    /\ mainEditorListeners
    /\ UNCHANGED <<idsObserved, uiObserved, harnessVars, runVars, besideVars>>

addNewCell ==
    /\ pc = "main"
    /\ isNotebookMode
    /\ ~renderPending
    /\ focusTimer = <<>>
    /\ Len(cells) < MaxCells
    /\ \E position \in Positions :
          /\ cells' = renderedCells(addedCells(cells, position, now), now)
          /\ buffer' = syncCellsToAceEditor(cells', cellEditors, isNotebookMode, buffer)
          /\ focusTimer' = observed(<<[op |-> "addNewCell", target |-> position,
                                     command |-> "addNewCell"]>>, <<>>)
          /\ lastArg' = observed(position, NoPosition)
    /\ textareas' = NoEditors
    /\ renderPending' = TRUE
    /\ focus' = NoFocus
    /\ lastOp' = "addNewCell"
    /\ UNCHANGED <<isNotebookMode, cellEditors, debounceTimer, now, windowAce>>
    /\ UNCHANGED <<uiVars, initVars>>
    /\ mainEditorListeners
    /\ UNCHANGED <<idsObserved, uiObserved, harnessVars, runVars, besideVars>>

copyCell ==
    /\ pc = "main"
    /\ isNotebookMode
    /\ ~renderPending
    /\ focusTimer = <<>>
    /\ \E index \in Indices(Len(cells)) :
          IF index < 0 \/ index >= Len(cells)
          THEN /\ lastOp' = "copyCell:ignored"
               /\ lastArg' = index
               /\ UNCHANGED <<cells, buffer, textareas, renderPending, focus, focusTimer>>
          ELSE LET cellContent == IF index \in DOMAIN cellEditors
                                  THEN cellEditors[index]
                                  ELSE cells[index + 1].content
                   copiedCell == [id |-> cellId(<<now>>), content |-> cellContent]
               IN  /\ Len(cells) < MaxCells
                   /\ cells' = renderedCells(insertAt(cells, index + 1, copiedCell), now)
                   /\ buffer' = syncCellsToAceEditor(cells', cellEditors, isNotebookMode, buffer)
                   /\ focusTimer' = observed(<<[op |-> "copyCell", target |-> index + 1,
                                              command |-> "copyCell"]>>, <<>>)
                   /\ lastArg' = observed(index, NoPosition)
                   /\ textareas' = NoEditors
                   /\ renderPending' = TRUE
                   /\ focus' = NoFocus
                   /\ lastOp' = "copyCell"
    /\ UNCHANGED <<isNotebookMode, cellEditors, debounceTimer, now, windowAce>>
    /\ UNCHANGED <<uiVars, initVars>>
    /\ mainEditorListeners
    /\ UNCHANGED <<idsObserved, uiObserved, harnessVars, runVars, besideVars>>

deleteCell ==
    /\ pc = "main"
    /\ isNotebookMode
    /\ ~renderPending
    /\ focusTimer = <<>>
    /\ \E index \in Indices(Len(cells)) :
          IF indexInRange(index, Len(cells))
          THEN LET target == focusIndex(index, Len(cells))
                   left == removeAt(cells, index)
               IN  /\ cellEditors' = [i \in (DOMAIN cellEditors) \ {index} |-> cellEditors[i]]
                   /\ cells' = renderedCells(left, now)
                   /\ buffer' = syncCellsToAceEditor(cells', cellEditors', isNotebookMode, buffer)
                   /\ focusTimer' = observed(
                          IF target >= 0 /\ Len(cells') > 0
                          THEN <<[op |-> "deleteCell", target |-> target,
                                  command |-> "deleteCell"]>>
                          ELSE renderFocusTimer(left, "deleteCell"), <<>>)
                   /\ lastArg' = observed(index, NoPosition)
                   /\ textareas' = NoEditors
                   /\ renderPending' = TRUE
                   /\ focus' = NoFocus
                   /\ lastOp' = "deleteCell"
          ELSE /\ lastOp' = "deleteCell:ignored"
               /\ lastArg' = index
               /\ UNCHANGED <<cells, buffer, cellEditors, textareas, renderPending,
                              focus, focusTimer>>
    /\ UNCHANGED <<isNotebookMode, debounceTimer, now, windowAce>>
    /\ UNCHANGED <<uiVars, initVars>>
    /\ mainEditorListeners
    /\ UNCHANGED <<idsObserved, uiObserved, harnessVars, runVars, besideVars>>

executeCell ==
    /\ pc = "main"
    /\ isNotebookMode
    /\ ~renderPending
    /\ focusTimer = <<>>
    /\ \E index \in 0..(Len(cells) - 1) :
          /\ trim(cells[index + 1].content) # <<>>
          /\ buffer' = syncCellsToAceEditor(cells, cellEditors, isNotebookMode, buffer)
          /\ lastArg' = observed(index, NoPosition)
    /\ textareas' = NoEditors
    /\ renderPending' = TRUE
    /\ focus' = NoFocus
    /\ lastOp' = "executeCell"
    /\ UNCHANGED <<cells, isNotebookMode, cellEditors, debounceTimer, now, windowAce>>
    /\ UNCHANGED <<uiVars, focusTimer, initVars>>
    /\ mainEditorListeners
    /\ UNCHANGED <<idsObserved, uiObserved, harnessVars, runVars, besideVars>>

\* the setTimeout(0) callbacks of createCellElement: one editing surface per cell
createCellAceEditor ==
    /\ pc = "main"
    /\ renderPending
    /\ IF windowAce
       THEN /\ cellEditors' =
                  [i \in (DOMAIN cellEditors) \cup (0..(Len(cells) - 1)) |->
                      IF i < Len(cells) THEN cells[i + 1].content ELSE cellEditors[i]]
            /\ textareas' = NoEditors
       ELSE /\ textareas' = [i \in 0..(Len(cells) - 1) |-> textareaValue(cells[i + 1].content)]
            /\ UNCHANGED cellEditors
    /\ renderPending' = FALSE
    /\ lastOp' = "createCellAceEditor"
    /\ UNCHANGED <<cells, buffer, isNotebookMode, debounceTimer, now, windowAce>>
    /\ UNCHANGED <<uiVars, focusVars, initVars>>
    /\ mainEditorListeners
    /\ UNCHANGED <<idsObserved, uiObserved, harnessVars, runVars, besideVars>>

\* the user changes the text of the editing surface of a cell
debouncedUpdateCell ==
    /\ pc = "main"
    /\ isNotebookMode
    /\ ~renderPending
    /\ \E index \in 0..(Len(cells) - 1), text \in EditTexts :
          /\ IF index \in DOMAIN textareas
             THEN /\ text # textareas[index]
                  /\ textareas' = [textareas EXCEPT ![index] = text]
                  /\ UNCHANGED cellEditors
             ELSE /\ index \in DOMAIN cellEditors
                  /\ text # cellEditors[index]
                  /\ cellEditors' = [cellEditors EXCEPT ![index] = text]
                  /\ UNCHANGED textareas
          /\ debounceTimer' = <<[index |-> index, content |-> text]>>
          /\ focus' = observed(index, NoFocus)
    /\ lastOp' = "debouncedUpdateCell"
    /\ UNCHANGED <<cells, buffer, isNotebookMode, renderPending, now, windowAce>>
    /\ UNCHANGED <<uiVars, focusTimer, lastArg, initVars>>
    /\ mainEditorListeners
    /\ UNCHANGED <<idsObserved, uiObserved, harnessVars, runVars, besideVars>>

\* the debounce timer fires
updateCellContent ==
    /\ pc = "main"
    /\ debounceTimer # <<>>
    /\ ~renderPending
    /\ LET index == debounceTimer[1].index
           text == debounceTimer[1].content
       IN  IF index >= 0 /\ index < Len(cells)
           THEN /\ cells' = [cells EXCEPT ![index + 1].content = text]
                /\ buffer' = syncCellsToAceEditor(cells', cellEditors, isNotebookMode, buffer)
                /\ lastOp' = "updateCellContent"
           ELSE /\ UNCHANGED <<cells, buffer>>
                /\ lastOp' = "updateCellContent:ignored"
    /\ debounceTimer' = <<>>
    /\ UNCHANGED <<isNotebookMode, cellEditors, textareas, renderPending, now, windowAce>>
    /\ UNCHANGED <<uiVars, focusVars, initVars>>
    /\ mainEditorListeners
    /\ UNCHANGED <<idsObserved, uiObserved, harnessVars, runVars, besideVars>>

\* a millisecond passes
Tick ==
    /\ pc = "main"
    /\ now < MaxClock
    /\ now' = now + 1
    /\ UNCHANGED <<cells, buffer, isNotebookMode, cellEditors, textareas,
                   debounceTimer, renderPending, windowAce, lastOp>>
    /\ UNCHANGED <<uiVars, focusVars, initVars>>
    /\ mainEditorListeners
    /\ UNCHANGED <<idsObserved, uiObserved, harnessVars, runVars, besideVars>>

Next ==
    \/ TypeInMainEditor
    \/ switchToNotebookMode
    \/ switchToTextMode
    \/ addNewCell
    \/ copyCell
    \/ deleteCell
    \/ executeCell
    \/ createCellAceEditor
    \/ debouncedUpdateCell
    \/ updateCellContent

Spec == Init /\ [][Next]_vars

NextIds ==
    \/ switchToNotebookMode
    \/ switchToTextMode
    \/ addNewCell
    \/ copyCell
    \/ deleteCell
    \/ createCellAceEditor
    \/ Tick

SpecIds == InitIds /\ [][NextIds]_vars

(***************************************************************************)
(* Startup, the mode toggle with its failures, input focus and navigation  *)
(***************************************************************************)
\* one run of tryInitialize
tryInitialize ==
    /\ pc = "main"
    /\ initPc = "tryInitialize"
    /\ IF findAceEditor(editorInPage)
       THEN /\ aceEditor' = TRUE
            /\ savedPreference' = loadNotebookModePreference(preference, storageOk)
            /\ loads' = loads + 1
            /\ initPc' = IF savedPreference' = "true" THEN "restore" ELSE "done"
            /\ UNCHANGED retryCount
       ELSE /\ retryCount' = retryCount + 1
            /\ initPc' = IF retryCount + 1 < maxRetries THEN "tryInitialize" ELSE "done"
            /\ UNCHANGED <<aceEditor, savedPreference, loads>>
    /\ lastOp' = "tryInitialize"
    /\ UNCHANGED <<cells, buffer, isNotebookMode, cellEditors, textareas,
                   debounceTimer, renderPending, now, windowAce>>
    /\ UNCHANGED <<editorInPage, containerAttached, notebookInserted,
                   originalDisplay, notebookDisplay, preference, storageOk,
                   focusVars, autoSwitches>>
    /\ mainEditorListeners
    /\ UNCHANGED <<idsObserved, uiObserved, harnessVars, runVars, besideVars>>

\* the setTimeout(500) of tryInitialize: the saved preference is true
restoreNotebookMode ==
    /\ pc = "main"
    /\ initPc = "restore"
    /\ ~renderPending
    /\ focusTimer = <<>>
    /\ enterNotebookMode
    /\ initPc' = "done"
    /\ autoSwitches' = autoSwitches + 1
    /\ UNCHANGED <<debounceTimer, now, windowAce, retryCount, savedPreference, loads>>
    /\ mainEditorListeners
    /\ UNCHANGED <<idsObserved, uiObserved, harnessVars, runVars, besideVars>>

\* the page finishes loading its editor
editorAppears ==
    /\ pc = "main"
    /\ ~editorInPage
    /\ editorInPage' = TRUE
    /\ lastOp' = "editorAppears"
    /\ UNCHANGED <<cells, buffer, isNotebookMode, cellEditors, textareas,
                   debounceTimer, renderPending, now, windowAce>>
    /\ UNCHANGED <<aceEditor, containerAttached, notebookInserted,
                   originalDisplay, notebookDisplay, preference, storageOk,
                   focusVars, initVars>>
    /\ mainEditorListeners
    /\ UNCHANGED <<idsObserved, uiObserved, harnessVars, runVars, besideVars>>

\* the page replaces the editor it had: the container found earlier is detached
containerDetached ==
    /\ pc = "main"
    /\ aceEditor
    /\ containerAttached
    /\ ~notebookInserted
    /\ containerAttached' = FALSE
    /\ lastOp' = "containerDetached"
    /\ UNCHANGED <<cells, buffer, isNotebookMode, cellEditors, textareas,
                   debounceTimer, renderPending, now, windowAce>>
    /\ UNCHANGED <<aceEditor, editorInPage, notebookInserted,
                   originalDisplay, notebookDisplay, preference, storageOk,
                   focusVars, initVars>>
    /\ mainEditorListeners
    /\ UNCHANGED <<idsObserved, uiObserved, harnessVars, runVars, besideVars>>

\* the focus callback of addNewCell (100 ms), copyCell (200 ms) or deleteCell (100 ms)
focusAfterRender ==
    /\ pc = "main"
    /\ ~renderPending
    /\ focusTimer # <<>>
    /\ LET op == focusTimer[1].op
           target == focusTimer[1].target
       IN  focus' = IF op = "addNewCell"
                    THEN focusAfterAdd(target, textareas, focus)
                    ELSE IF op = "copyCell"
                    THEN focusAfterCopy(target, Len(cells), cellEditors, focus)
                    ELSE focusCell(target, Len(cells), cellEditors, textareas, focus)
    /\ focusTimer' = <<>>
    /\ lastOp' = focusLabel(focusTimer[1].command)
    /\ UNCHANGED <<cells, buffer, isNotebookMode, cellEditors, textareas,
                   debounceTimer, renderPending, now, windowAce>>
    /\ UNCHANGED <<uiVars, lastArg, initVars>>
    /\ mainEditorListeners
    /\ UNCHANGED <<idsObserved, uiObserved, harnessVars, runVars, besideVars>>

\* the user puts the input focus into the editing surface of a cell
updateCellFocusState ==
    /\ pc = "main"
    /\ isNotebookMode
    /\ ~renderPending
    /\ \E index \in 0..(Len(cells) - 1) :
          /\ index # focus
          /\ focus' = index
    /\ lastOp' = "updateCellFocusState"
    /\ UNCHANGED <<cells, buffer, isNotebookMode, cellEditors, textareas,
                   debounceTimer, renderPending, now, windowAce>>
    /\ UNCHANGED <<uiVars, focusTimer, lastArg, initVars>>
    /\ mainEditorListeners
    /\ UNCHANGED <<idsObserved, uiObserved, harnessVars, runVars, besideVars>>

getCurrentFocusedCellIndex_first == IF focus = NoFocus THEN NoFocus ELSE 0

\* the result of getCurrentFocusedCellIndex(): NoFocus stands for null
getCurrentFocusedCellIndex == focus

navigateToPreviousCell ==
    /\ pc = "main"
    /\ LET currentFocusedCell == getCurrentFocusedCellIndex
       IN  focus' = IF ~isNotebookMode THEN focus
                    ELSE IF currentFocusedCell = NoFocus \/ currentFocusedCell <= 0
                    THEN focus
                    ELSE focusCell(currentFocusedCell - 1, Len(cells),
                                   cellEditors, textareas, focus)
    /\ lastOp' = "navigateToPreviousCell"
    /\ UNCHANGED <<cells, buffer, isNotebookMode, cellEditors, textareas,
                   debounceTimer, renderPending, now, windowAce>>
    /\ UNCHANGED <<uiVars, focusTimer, lastArg, initVars>>
    /\ mainEditorListeners
    /\ UNCHANGED <<idsObserved, uiObserved, harnessVars, runVars, besideVars>>

navigateToNextCell ==
    /\ pc = "main"
    /\ LET currentFocusedCell == getCurrentFocusedCellIndex
       IN  focus' = IF ~isNotebookMode THEN focus
                    ELSE IF currentFocusedCell = NoFocus
                            \/ currentFocusedCell >= Len(cells) - 1
                    THEN focus
                    ELSE focusCell(currentFocusedCell + 1, Len(cells),
                                   cellEditors, textareas, focus)
    /\ lastOp' = "navigateToNextCell"
    /\ UNCHANGED <<cells, buffer, isNotebookMode, cellEditors, textareas,
                   debounceTimer, renderPending, now, windowAce>>
    /\ UNCHANGED <<uiVars, focusTimer, lastArg, initVars>>
    /\ mainEditorListeners
    /\ UNCHANGED <<idsObserved, uiObserved, harnessVars, runVars, besideVars>>

\* startup and the mode toggle, with the editor, the container and the store failing
NextMode ==
    \/ tryInitialize
    \/ restoreNotebookMode
    \/ editorAppears
    \/ containerDetached
    \/ TypeInMainEditor
    \/ switchToNotebookMode
    \/ switchToTextMode
    \/ addNewCell
    \/ deleteCell
    \/ createCellAceEditor

SpecMode == InitMode /\ [][NextMode]_vars

\* the cell commands with any index, input focus and navigation
NextFocus ==
    \/ switchToNotebookMode
    \/ switchToTextMode
    \/ addNewCell
    \/ copyCell
    \/ deleteCell
    \/ createCellAceEditor
    \/ focusAfterRender
    \/ updateCellFocusState
    \/ navigateToPreviousCell
    \/ navigateToNextCell

SpecFocus == InitFocus /\ [][NextFocus]_vars

\* window.reRedashNotebook.init() once more: a new detached container and a
\* new tryInitialize with its own retryCount
initNotebook ==
    /\ pc = "main"
    /\ initPc = "done"
    /\ loads < MaxInits
    /\ ~renderPending
    /\ focusTimer = <<>>
    /\ notebookInserted' = FALSE
    /\ notebookDisplay' = "none"
    /\ initPc' = "tryInitialize"
    /\ retryCount' = 0
    /\ savedPreference' = "unread"
    /\ lastOp' = "initNotebook"
    /\ UNCHANGED <<cells, buffer, isNotebookMode, cellEditors, textareas,
                   debounceTimer, renderPending, now, windowAce>>
    /\ UNCHANGED <<aceEditor, editorInPage, containerAttached, originalDisplay,
                   preference, storageOk, focusVars, loads, autoSwitches>>
    /\ mainEditorListeners
    /\ UNCHANGED <<idsObserved, uiObserved, harnessVars, runVars, besideVars>>

\* startup and the mode toggle as in NextMode, with initNotebook called again
NextReenter ==
    \/ tryInitialize
    \/ restoreNotebookMode
    \/ initNotebook
    \/ editorAppears
    \/ containerDetached
    \/ TypeInMainEditor
    \/ switchToNotebookMode
    \/ switchToTextMode
    \/ addNewCell
    \/ deleteCell
    \/ createCellAceEditor

SpecReenter == InitMode /\ [][NextReenter]_vars

(***************************************************************************)
(* runAllCells: the chain of executeCell calls, one second apart           *)
(***************************************************************************)
NoCell == <<-1>>

\* the filter of runAllCells
hasQuery(entry) == trim(entry.cell.content) # <<>>

\* executeCell(index) called by the chain, its outcome appended to log
chainStep(log, index) ==
    IF index >= 0 /\ index < Len(cells) /\ trim(cells[index + 1].content) # <<>>
    THEN /\ buffer' = syncCellsToAceEditor(cells, cellEditors, isNotebookMode, buffer)
         /\ textareas' = NoEditors
         /\ renderPending' = TRUE
         /\ focus' = NoFocus
         /\ executed' = Append(log, [index |-> index, id |-> cells[index + 1].id])
    ELSE /\ UNCHANGED <<buffer, textareas, renderPending, focus>>
         /\ executed' = Append(log, [index |-> index, id |-> NoCell])

\* window.reRedashNotebook.runAll(): the first executeCell runs as soon as the
\* call returns
runAllCells ==
    /\ pc = "main"
    /\ isNotebookMode
    /\ ~renderPending
    /\ focusTimer = <<>>
    /\ Len(executed) = Len(nonEmptyCells)
    /\ LET found == SelectSeq([i \in 1..Len(cells) |-> [cell |-> cells[i], index |-> i - 1]],
                              hasQuery)
       IN  IF found = <<>>
           THEN /\ lastOp' = "runAllCells:alert"
                /\ UNCHANGED <<buffer, textareas, renderPending, focus, runVars>>
           ELSE /\ nonEmptyCells' = found
                /\ chainStep(<<>>, found[1].index)
                /\ lastOp' = "runAllCells"
    /\ UNCHANGED <<cells, isNotebookMode, cellEditors, debounceTimer, now, windowAce>>
    /\ UNCHANGED <<uiVars, focusTimer, lastArg, initVars>>
    /\ mainEditorListeners
    /\ UNCHANGED <<idsObserved, uiObserved, harnessVars, besideVars>>

\* the setTimeout(resolve, 1000) of the previous step has fired
runNextCell ==
    /\ pc = "main"
    /\ ~renderPending
    /\ focusTimer = <<>>
    /\ Len(executed) < Len(nonEmptyCells)
    /\ chainStep(executed, nonEmptyCells[Len(executed) + 1].index)
    /\ lastOp' = "runNextCell"
    /\ UNCHANGED <<cells, isNotebookMode, cellEditors, debounceTimer, now, windowAce>>
    /\ UNCHANGED <<uiVars, focusTimer, lastArg, initVars, nonEmptyCells>>
    /\ mainEditorListeners
    /\ UNCHANGED <<idsObserved, uiObserved, harnessVars, besideVars>>

NextRun ==
    \/ switchToNotebookMode
    \/ switchToTextMode
    \/ createCellAceEditor
    \/ deleteCell
    \/ runAllCells
    \/ runNextCell

SpecRun == InitIds /\ [][NextRun]_vars

(***************************************************************************)
(* The retry loops that wait for the page: each polls for its target and   *)
(* schedules itself again while the target is missing                      *)
(***************************************************************************)
\* CONFIG.MAX_RETRIES of the query saver
MAX_RETRIES == 10

\* maxRetries of waitForElementsAndInitialize
maxRetriesElements == 20

\* maxAttempts of tryFetch
maxAttempts == 10

Loops == {"notebook", "querySaver", "contentScript", "completions", "dataSource"}

\* the first call of one of the loops is pending; the page has loaded nothing yet
InitPoll ==
    /\ InitCells
    /\ idsObserved = FALSE
    /\ uiObserved = FALSE
    /\ aceEditor = FALSE
    /\ editorInPage = FALSE
    /\ preference = "none"
    /\ storageOk = TRUE
    /\ saver = NoSaver
    /\ savedQuery = <<>>
    /\ \E loop \in Loops :
          /\ poll = [NoPoll EXCEPT !.loop = loop, !.timer = (loop # "notebook")]
          /\ initPc = IF loop = "notebook" THEN "tryInitialize" ELSE "done"

\* the element a loop of the content script or of the completions waits for
\* is added to the page
targetAppears ==
    /\ pc = "main"
    /\ poll.loop \in {"contentScript", "completions", "dataSource"}
    /\ ~poll.target
    /\ poll' = [poll EXCEPT !.target = TRUE]
    /\ lastOp' = "targetAppears"
    /\ UNCHANGED <<saver, savedQuery, quickSearchState, executedQuery, resultVars>>
    /\ UNCHANGED <<notebookVars, harnessVars, runVars>>

\* one call of a loop with a retry budget: found, else scheduled again while
\* retryCount < budget
retryStep(found, budget) ==
    [poll EXCEPT !.attempts = poll.attempts + 1,
                 !.retryCount = IF found THEN poll.retryCount ELSE poll.retryCount + 1,
                 !.found = found,
                 !.timer = ~found /\ poll.retryCount < budget]

\* setupQuerySaver(retryCount) of the query saver
setupQuerySaver ==
    /\ pc = "main"
    /\ poll.loop = "querySaver"
    /\ poll.timer
    /\ LET found == findAceEditorOfSaver(windowAce, editorInPage)
       IN  /\ poll' = retryStep(found, MAX_RETRIES)
           /\ IF found
              THEN restoreSavedQuery(
                       attachAceEditorListeners([saver EXCEPT !.aceEditor = TRUE]),
                       FALSE)
              ELSE UNCHANGED <<buffer, saver>>
    /\ lastOp' = "setupQuerySaver"
    /\ UNCHANGED <<cells, isNotebookMode, cellEditors, textareas, debounceTimer,
                   renderPending, now, windowAce>>
    /\ UNCHANGED <<uiVars, focusVars, initVars>>
    /\ UNCHANGED <<idsObserved, uiObserved, harnessVars, runVars>>
    /\ UNCHANGED <<savedQuery, quickSearchState, executedQuery, resultVars>>

\* waitForElementsAndInitialize(retryCount) of the content script
waitForElementsAndInitialize ==
    /\ pc = "main"
    /\ poll.loop = "contentScript"
    /\ poll.timer
    /\ poll' = retryStep(poll.target, maxRetriesElements)
    /\ lastOp' = "waitForElementsAndInitialize"
    /\ UNCHANGED <<saver, savedQuery, quickSearchState, executedQuery, resultVars>>
    /\ UNCHANGED <<notebookVars, harnessVars, runVars>>

\* tryFetch of the completion fetch: attempts is counted before the test
tryFetch ==
    /\ pc = "main"
    /\ poll.loop = "completions"
    /\ poll.timer
    /\ poll' = retryStep(poll.target, maxAttempts - 1)
    /\ lastOp' = "tryFetch"
    /\ UNCHANGED <<saver, savedQuery, quickSearchState, executedQuery, resultVars>>
    /\ UNCHANGED <<notebookVars, harnessVars, runVars>>

\* startDataSourceMonitoring: the selector is observed, or the function is
\* scheduled again after two seconds
startDataSourceMonitoring ==
    /\ pc = "main"
    /\ poll.loop = "dataSource"
    /\ poll.timer
    /\ poll.attempts < MaxPolls
    /\ poll' = [poll EXCEPT !.attempts = poll.attempts + 1,
                            !.found = poll.target,
                            !.timer = ~poll.target]
    /\ lastOp' = "startDataSourceMonitoring"
    /\ UNCHANGED <<saver, savedQuery, quickSearchState, executedQuery, resultVars>>
    /\ UNCHANGED <<notebookVars, harnessVars, runVars>>

\* each loop alone, with the page producing its target at any moment or never
NextPoll ==
    \/ tryInitialize
    \/ editorAppears
    \/ targetAppears
    \/ setupQuerySaver
    \/ waitForElementsAndInitialize
    \/ tryFetch
    \/ startDataSourceMonitoring

SpecPoll == InitPoll /\ [][NextPoll]_vars

(***************************************************************************)
(* The query saver: the listeners of the main editor and the timers        *)
(***************************************************************************)
\* the queries an earlier saveQuery can have left in the store
SavedTexts == {trim(text) : text \in BufferTexts} \ {EmptyText}

\* the script has been loaded and the first call of setupQuerySaver is pending
InitSaver ==
    /\ InitCells
    /\ idsObserved = FALSE
    /\ uiObserved = FALSE
    /\ aceEditor = TRUE
    /\ editorInPage = TRUE
    /\ preference = "none"
    /\ storageOk \in BOOLEAN
    /\ initPc = "done"
    /\ poll = [NoPoll EXCEPT !.loop = "querySaver", !.timer = TRUE]
    /\ saver = NoSaver
    /\ savedQuery \in {<<>>} \cup {<<text>> : text \in SavedTexts}

\* the user pastes into the main editor: the change and the paste listeners run
pasteInMainEditor ==
    /\ pc = "main"
    /\ ~isNotebookMode
    /\ ~renderPending
    /\ \E text \in BufferTexts :
          /\ text # buffer
          /\ buffer' = text
          /\ saver' = [onChange(saver, text) EXCEPT !.pasteTimer = saver.isListenerAttached]
    /\ lastOp' = "paste"
    /\ UNCHANGED <<cells, isNotebookMode, cellEditors, textareas, debounceTimer,
                   renderPending, now, windowAce>>
    /\ UNCHANGED <<uiVars, focusVars, initVars>>
    /\ UNCHANGED <<idsObserved, uiObserved, harnessVars, runVars>>
    /\ UNCHANGED <<poll, savedQuery, quickSearchState, executedQuery, resultVars>>

\* the setTimeout(10) of the paste listener: saveQuery(aceEditor.getValue())
pasteTimerFires ==
    /\ pc = "main"
    /\ saver.pasteTimer
    /\ savedQuery' = saveQuery(savedQuery, storageOk, buffer)
    /\ saver' = [saver EXCEPT !.pasteTimer = FALSE,
                              !.writes = IF storageOk THEN saver.writes + 1
                                         ELSE saver.writes]
    /\ lastOp' = "pasteTimerFires"
    /\ UNCHANGED <<notebookVars, harnessVars, runVars>>
    /\ UNCHANGED <<poll, quickSearchState, executedQuery, resultVars>>

\* the setTimeout(DEBOUNCE_DELAY) of debouncedSave: saveQuery(value); a paste
\* timer is never older than the pending save and runs 10 ms after its paste
debounceTimerFires ==
    /\ pc = "main"
    /\ saver.debounceTimer # <<>>
    /\ ~saver.pasteTimer
    /\ savedQuery' = saveQuery(savedQuery, storageOk, saver.debounceTimer[1])
    /\ saver' = [saver EXCEPT !.debounceTimer = <<>>,
                              !.writes = IF storageOk THEN saver.writes + 1
                                         ELSE saver.writes]
    /\ lastOp' = "debounceTimerFires"
    /\ UNCHANGED <<notebookVars, harnessVars, runVars>>
    /\ UNCHANGED <<poll, quickSearchState, executedQuery, resultVars>>

\* the focus listener: restoreSavedQuery() when the editor is blank
focusMainEditor ==
    /\ pc = "main"
    /\ ~isNotebookMode
    /\ saver.isListenerAttached
    /\ IF trim(buffer) = <<>>
       THEN restoreSavedQuery(saver, FALSE)
       ELSE UNCHANGED <<buffer, saver>>
    /\ lastOp' = "focus"
    /\ UNCHANGED <<cells, isNotebookMode, cellEditors, textareas, debounceTimer,
                   renderPending, now, windowAce>>
    /\ UNCHANGED <<uiVars, focusVars, initVars>>
    /\ UNCHANGED <<idsObserved, uiObserved, harnessVars, runVars>>
    /\ UNCHANGED <<poll, savedQuery, quickSearchState, executedQuery, resultVars>>

\* window.reRedashQuerySaver.restoreSavedQuery(forceRestore), also reached by
\* the restoreSavedQuery message
callRestoreSavedQuery ==
    /\ pc = "main"
    /\ \E forceRestore \in BOOLEAN :
          /\ restoreSavedQuery(saver, forceRestore)
          /\ lastOp' = IF forceRestore THEN "restoreSavedQuery:force"
                        ELSE "restoreSavedQuery"
    /\ UNCHANGED <<cells, isNotebookMode, cellEditors, textareas, debounceTimer,
                   renderPending, now, windowAce>>
    /\ UNCHANGED <<uiVars, focusVars, initVars>>
    /\ UNCHANGED <<idsObserved, uiObserved, harnessVars, runVars>>
    /\ UNCHANGED <<poll, savedQuery, quickSearchState, executedQuery, resultVars>>

NextSaver ==
    \/ setupQuerySaver
    \/ TypeInMainEditor
    \/ pasteInMainEditor
    \/ pasteTimerFires
    \/ debounceTimerFires
    \/ focusMainEditor
    \/ callRestoreSavedQuery

SpecSaver == InitSaver /\ [][NextSaver]_vars

(***************************************************************************)
(* The notebook startup, the mode toggle and the query saver on one page,  *)
(* with a local storage that works or throws on every access               *)
(***************************************************************************)
\* both scripts have been loaded and none has looked for the editor yet
InitStore ==
    /\ InitCells
    /\ idsObserved = FALSE
    /\ uiObserved = FALSE
    /\ aceEditor = FALSE
    /\ editorInPage = TRUE
    /\ preference \in {"none", "true", "false"}
    /\ storageOk \in BOOLEAN
    /\ initPc = "tryInitialize"
    /\ poll = [NoPoll EXCEPT !.loop = "querySaver", !.timer = TRUE]
    /\ saver = NoSaver
    /\ savedQuery \in {<<>>} \cup {<<text>> : text \in SavedTexts}

NextStore ==
    \/ tryInitialize
    \/ restoreNotebookMode
    \/ switchToNotebookMode
    \/ switchToTextMode
    \/ createCellAceEditor
    \/ setupQuerySaver
    \/ TypeInMainEditor
    \/ pasteInMainEditor
    \/ pasteTimerFires
    \/ debounceTimerFires
    \/ focusMainEditor
    \/ callRestoreSavedQuery

SpecStore == InitStore /\ [][NextStore]_vars

(***************************************************************************)
(* The quick-search palette (quick-search.js)                              *)
(***************************************************************************)
\* the names that window.reRedashNotebook exports
reRedashNotebook ==
    {"init", "toggleMode", "addCell", "runAll", "getState", "debug", "findEditor",
     "findAndExecuteQuery", "executeSelectedQuery", "findQuery"}

\* the properties that the scripts of the extension assign on window
windowProperties == {"reRedashNotebook", "reRedashQuerySaver"}

\* window.notebookState is defined: notebookState is a let binding of the
\* notebook script, which makes no property of window
windowNotebookState == "notebookState" \in windowProperties

\* quickSearchState.tables: the names loaded from the completion cache
tables == << <<"a">>, <<"A", "b">>, <<"b">> >>

\* what the user types into the search input
SearchInputs == { <<>>, <<" ">>, <<"a">>, <<"b", " ">>, <<"a", "b">>, <<"c">> }

toLowerCase(s) == [i \in 1..Len(s) |-> IF s[i] = "A" THEN "a" ELSE s[i]]

includes(s, part) ==
    \E i \in 1..(Len(s) + 1) :
        i + Len(part) - 1 <= Len(s) /\ SubSeq(s, i, i + Len(part) - 1) = part

\* the text of the query made for a table
selectQuery(tableName) == <<"SELECT * FROM ">> \o tableName \o <<" LIMIT 100">>

\* the palette and the notebook's page: the editor is found, the palette closed
InitSearch ==
    /\ InitCells
    /\ InitPage
    /\ idsObserved = FALSE
    /\ uiObserved = FALSE
    /\ aceEditor = TRUE
    /\ editorInPage = TRUE
    /\ preference = "none"
    /\ storageOk = TRUE
    /\ initPc = "done"

\* a handler of the palette that leaves the editor and the notebook alone
paletteOnly ==
    /\ UNCHANGED <<notebookVars, harnessVars, runVars>>
    /\ UNCHANGED <<poll, saver, savedQuery, resultVars>>

\* Cmd+K or Ctrl+K with the palette closed
openQuickSearch ==
    /\ pc = "main"
    /\ ~quickSearchState.isOpen
    /\ quickSearchState' = [isOpen |-> TRUE, filteredTables |-> tables,
                            selectedIndex |-> IF Len(tables) > 0 THEN 0 ELSE -1]
    /\ lastOp' = "openQuickSearch"
    /\ UNCHANGED executedQuery
    /\ paletteOnly

\* Cmd+K, Ctrl+K or Escape with the palette open
closeQuickSearch ==
    /\ pc = "main"
    /\ quickSearchState.isOpen
    /\ quickSearchState' = ClosedQuickSearch
    /\ lastOp' = "closeQuickSearch"
    /\ UNCHANGED executedQuery
    /\ paletteOnly

handleSearchInput ==
    /\ pc = "main"
    /\ quickSearchState.isOpen
    /\ \E value \in SearchInputs :
          LET query == toLowerCase(trim(value))
              matching(name) == includes(toLowerCase(name), query)
              filtered == IF query = <<>> THEN tables ELSE SelectSeq(tables, matching)
          IN  quickSearchState' =
                  [quickSearchState EXCEPT !.filteredTables = filtered,
                                           !.selectedIndex = IF Len(filtered) > 0 THEN 0 ELSE -1]
    /\ lastOp' = "handleSearchInput"
    /\ UNCHANGED executedQuery
    /\ paletteOnly

\* selectTable(tableName), called by the Enter key and by a click on a suggestion
selectTable(tableName) ==
    /\ quickSearchState' = ClosedQuickSearch
    /\ IF "executeTableQuery" \in reRedashNotebook
       THEN /\ executedQuery' = Append(executedQuery, selectQuery(tableName))
            /\ UNCHANGED buffer
       ELSE /\ buffer' = IF windowNotebookState /\ aceEditor
                         THEN selectQuery(tableName)
                         ELSE buffer
            /\ UNCHANGED executedQuery
    /\ lastOp' = "selectTable"
    /\ mainEditorListeners
    /\ UNCHANGED <<cells, isNotebookMode, cellEditors, textareas, debounceTimer,
                   renderPending, now, windowAce, idsObserved, uiObserved, uiVars,
                   focusVars, initVars>>
    /\ UNCHANGED <<harnessVars, runVars, poll, savedQuery, resultVars>>

\* the arrow keys and Enter in the search input
handleKeyboardNavigation ==
    /\ pc = "main"
    /\ quickSearchState.isOpen
    /\ LET filteredTables == quickSearchState.filteredTables
           selectedIndex == quickSearchState.selectedIndex
       IN  \E key \in {"ArrowDown", "ArrowUp", "Enter"} :
             IF key = "Enter" /\ selectedIndex >= 0 /\ selectedIndex < Len(filteredTables)
             THEN selectTable(filteredTables[selectedIndex + 1])
             ELSE IF key = "Enter" /\ Len(filteredTables) = 1
             THEN selectTable(filteredTables[1])
             ELSE /\ quickSearchState' =
                         [quickSearchState EXCEPT !.selectedIndex =
                              IF key = "ArrowDown"
                              THEN min(selectedIndex + 1, Len(filteredTables) - 1)
                              ELSE IF key = "ArrowUp"
                              THEN max(selectedIndex - 1, 0)
                              ELSE selectedIndex]
                  /\ lastOp' = "handleKeyboardNavigation"
                  /\ UNCHANGED executedQuery
                  /\ paletteOnly

\* a click on one of the suggestions shown
handleSuggestionClick ==
    /\ pc = "main"
    /\ quickSearchState.isOpen
    /\ \E i \in 1..Len(quickSearchState.filteredTables) :
          selectTable(quickSearchState.filteredTables[i])

NextSearch ==
    \/ openQuickSearch
    \/ closeQuickSearch
    \/ handleSearchInput
    \/ handleKeyboardNavigation
    \/ handleSuggestionClick
    \/ TypeInMainEditor
    \/ switchToNotebookMode
    \/ switchToTextMode
    \/ createCellAceEditor

SpecSearch == InitSearch /\ [][NextSearch]_vars

(***************************************************************************)
(* The column toggles of the result table (quick-search.js).  A header    *)
(* cell is [name, id, hidden]: its text, its data-column-id (<<>> until   *)
(* addEyeIconsToTable gives it an eye icon) and whether it carries the    *)
(* hidden-column class.                                                    *)
(***************************************************************************)

\* replace(/\s+/g, "-"): every run of whitespace becomes one dash
RECURSIVE dashed(_)
dashed(s) ==
    IF s = <<>> THEN <<>>
    ELSE IF s[1] \in Whitespace
    THEN IF Len(s) > 1 /\ s[2] \in Whitespace
         THEN dashed(Tail(s))
         ELSE <<"-">> \o dashed(Tail(s))
    ELSE <<s[1]>> \o dashed(Tail(s))

\* the id of a header cell: its trimmed text and "col-" with its index,
\* joined, dashed and in lower case (the cells have no aria-label or test id)
generateColumnId(name, columnIndex) ==
    [text |-> toLowerCase(dashed(trim(name))), col |-> columnIndex]

\* every header cell without an eye icon gets one and its id, and is hidden
\* when its id is among the hidden columns
addEyeIconsToTable(table, hiddenColumns) ==
    [i \in 1..Len(table) |->
        IF table[i].id # <<>> THEN table[i]
        ELSE LET columnId == generateColumnId(table[i].name, i - 1)
                 isVisible == columnId \notin hiddenColumns
             IN  [name |-> table[i].name, id |-> <<columnId>>,
                  hidden |-> ~isVisible]]

\* a query run: the page renders a result table of one or two sortable
\* columns, and handleMutations, which sees the added table, restarts the
\* debounce timer
renderResultTable ==
    /\ pc = "main"
    /\ \E names \in Texts({<<"a">>, <<"A">>, <<" ", "a">>, <<"a", " ", "b">>}, 2) \ {<<>>} :
          columnVisibilityState' =
              [columnVisibilityState EXCEPT
                  !.table = [i \in 1..Len(names) |->
                                [name |-> names[i], id |-> <<>>, hidden |-> FALSE]],
                  !.debounceTimer = TRUE]
    /\ lastOp' = "renderResultTable"
    /\ UNCHANGED <<notebookVars, harnessVars, runVars, poll, saver, savedQuery,
                   quickSearchState, executedQuery>>
    /\ UNCHANGED <<completionData, dataSourceMonitoring>>

\* the debounce timer of handleMutations fires
processAllTables ==
    /\ pc = "main"
    /\ columnVisibilityState.debounceTimer
    /\ columnVisibilityState' =
           [columnVisibilityState EXCEPT
               !.table = addEyeIconsToTable(@, columnVisibilityState.hiddenColumns),
               !.debounceTimer = FALSE]
    /\ lastOp' = "processAllTables"
    /\ UNCHANGED <<notebookVars, harnessVars, runVars, poll, saver, savedQuery,
                   quickSearchState, executedQuery>>
    /\ UNCHANGED <<completionData, dataSourceMonitoring>>

\* a click on the eye icon of a header cell: hideColumn and showColumn
\* act on the header cell of the table that carries the id
toggleColumnVisibility ==
    /\ pc = "main"
    /\ \E i \in 1..Len(columnVisibilityState.table) :
          /\ columnVisibilityState.table[i].id # <<>>
          /\ LET columnId == columnVisibilityState.table[i].id[1]
                 hiddenColumns == columnVisibilityState.hiddenColumns
                 hide == columnId \notin hiddenColumns
             IN  columnVisibilityState' =
                     [columnVisibilityState EXCEPT
                         !.hiddenColumns = IF hide THEN @ \cup {columnId}
                                           ELSE @ \ {columnId},
                         !.table = [j \in 1..Len(@) |->
                                       IF @[j].id = <<columnId>>
                                       THEN [@[j] EXCEPT !.hidden = hide]
                                       ELSE @[j]]]
    /\ lastOp' = "toggleColumnVisibility"
    /\ UNCHANGED <<notebookVars, harnessVars, runVars, poll, saver, savedQuery,
                   quickSearchState, executedQuery>>
    /\ UNCHANGED <<completionData, dataSourceMonitoring>>

SpecColumns ==
    InitSearch /\ [][renderResultTable \/ processAllTables
                        \/ toggleColumnVisibility]_vars

(***************************************************************************)
(* The completion data (quick-search.js).  A fetch in flight is the        *)
(* pending Promise.all of fetchCompletions: [source, started], the data    *)
(* source whose completions the completers were asked for and the number   *)
(* of data-source changes seen when it started.                            *)
(***************************************************************************)

\* fetchCompletions: false without an editor, else the completers are asked
fetchCompletions(mon) ==
    IF ~(aceEditor /\ editorInPage) THEN mon
    ELSE [mon EXCEPT !.fetches = @ \cup {[source |-> mon.currentDataSource,
                                          started |-> mon.changes]}]

\* tryFetch of initCompletionHandler, or window.CompletionHandler.refresh
refreshCompletions ==
    /\ pc = "main"
    /\ dataSourceMonitoring' = fetchCompletions(dataSourceMonitoring)
    /\ dataSourceMonitoring' # dataSourceMonitoring
    /\ lastOp' = "fetchCompletions"
    /\ UNCHANGED <<notebookVars, harnessVars, runVars, poll, saver, savedQuery,
                   quickSearchState, executedQuery>>
    /\ UNCHANGED <<columnVisibilityState, completionData>>

\* the then-callback of the Promise.all of a fetch
completionsLoaded ==
    /\ pc = "main"
    /\ \E fetch \in dataSourceMonitoring.fetches, found \in BOOLEAN :
          /\ dataSourceMonitoring' =
                 [dataSourceMonitoring EXCEPT !.fetches = @ \ {fetch}]
          /\ completionData' =
                 IF found
                 THEN \* processCompletions, isLoaded, saveCompletionsToCache
                      [isLoaded |-> TRUE, allCompletions |-> fetch.source,
                       cache |-> IF storageOk THEN fetch.source
                                 ELSE completionData.cache]
                 ELSE completionData
    /\ lastOp' = "completionsLoaded"
    /\ UNCHANGED <<notebookVars, harnessVars, runVars, poll, saver, savedQuery,
                   quickSearchState, executedQuery>>
    /\ UNCHANGED columnVisibilityState

\* the observer of the data-source selector sees another data source
handleDataSourceChange ==
    /\ pc = "main"
    /\ dataSourceMonitoring.changes < MaxChanges
    /\ \E newDataSource \in {"mysql", "pg"} \ {dataSourceMonitoring.currentDataSource} :
          dataSourceMonitoring' =
              [dataSourceMonitoring EXCEPT !.currentDataSource = newDataSource,
                                           !.refreshTimeout = TRUE,
                                           !.changes = @ + 1]
    /\ completionData' =
           [isLoaded |-> FALSE, allCompletions |-> "none",
            cache |-> IF storageOk THEN "none" ELSE completionData.cache]
    /\ lastOp' = "handleDataSourceChange"
    /\ UNCHANGED <<notebookVars, harnessVars, runVars, poll, saver, savedQuery,
                   quickSearchState, executedQuery>>
    /\ UNCHANGED columnVisibilityState

\* the refresh timer of handleDataSourceChange fires
refreshTimeoutFires ==
    /\ pc = "main"
    /\ dataSourceMonitoring.refreshTimeout
    /\ dataSourceMonitoring' =
           [fetchCompletions(dataSourceMonitoring) EXCEPT !.refreshTimeout = FALSE]
    /\ lastOp' = "refreshTimeout"
    /\ UNCHANGED <<notebookVars, harnessVars, runVars, poll, saver, savedQuery,
                   quickSearchState, executedQuery>>
    /\ UNCHANGED <<columnVisibilityState, completionData>>

SpecCompletions ==
    InitSearch /\ [][refreshCompletions \/ completionsLoaded
                        \/ handleDataSourceChange \/ refreshTimeoutFires]_vars

(***************************************************************************)
(* Function-level harness: parseQueries on every short text, and the       *)
(* Joiner and the Splitter applied in turn to every short sequence of      *)
(* separator-free texts.                                                   *)
(***************************************************************************)
FragTexts == Texts(FragAlphabet, MaxFrag) \ {<<>>}

FragSeqs == UNION {[1..k -> FragTexts] : k \in 0..MaxCells}

\* a cell sequence holding the given contents
cellsOf(contentsSeq) ==
    [i \in 1..Len(contentsSeq) |-> [id |-> cellId(<<now>>), content |-> contentsSeq[i]]]

\* the main editor texts the Joiner finds before a pass
ResyncBuffers == { <<>>, <<"a">>, <<"a", ";", "\n", "\n", "a">> }

\* the textarea holding text with every selection the user can make in it
Selections(text) ==
    UNION {{[value |-> text, selectionStart |-> a, selectionEnd |-> b] :
               b \in a..Len(text)} : a \in 0..Len(text)}

InitFn ==
    /\ pc \in {"parse", "join", "resync", "toggle"}
    /\ IF pc = "parse"
       THEN content \in Texts(Alphabet, MaxLen) /\ S = <<>>
       ELSE IF pc = "join"
       THEN content = <<>> /\ S \in FragSeqs
       ELSE IF pc = "resync"
       THEN content \in ResyncBuffers /\ S \in FragSeqs
       ELSE content \in Texts(CommentAlphabet, MaxLen) /\ S = <<>>
    /\ now = 0
    /\ idsObserved = TRUE
    /\ IF pc = "toggle"
       THEN /\ cells = cellsOf(<<content>>)
            /\ textareas = [i \in {0} |-> content]
            /\ textarea \in Selections(content)
       ELSE /\ cells = <<>>
            /\ textareas = NoEditors
            /\ textarea = NoTextarea
    /\ textarea0 = textarea
    /\ nonEmptyCells = <<>>
    /\ executed = <<>>
    /\ poll = NoPoll
    /\ saver = NoSaver
    /\ savedQuery = <<>>
    /\ quickSearchState = ClosedQuickSearch
    /\ executedQuery = <<>>
    /\ columnVisibilityState = [hiddenColumns |-> {}, debounceTimer |-> FALSE,
                                table |-> <<>>]
    /\ completionData = [isLoaded |-> FALSE, allCompletions |-> "none",
                         cache |-> "none"]
    /\ dataSourceMonitoring = [currentDataSource |-> "mysql", refreshTimeout |-> FALSE,
                               changes |-> 0, fetches |-> {}]
    /\ isNotebookMode = TRUE
    /\ cellEditors = NoEditors
    /\ buffer = IF pc = "toggle" THEN fullContent(cells, cellEditors) ELSE <<>>
    /\ debounceTimer = <<>>
    /\ renderPending = FALSE
    /\ windowAce = FALSE
    /\ lastOp = "init"
    /\ joined = <<>>
    /\ queries = <<>>
    /\ rejoined = <<>>
    /\ writes = 0
    /\ uiObserved = FALSE
    /\ aceEditor = TRUE
    /\ editorInPage = TRUE
    /\ containerAttached = TRUE
    /\ notebookInserted = TRUE
    /\ originalDisplay = "none"
    /\ notebookDisplay = "block"
    /\ preference = "true"
    /\ storageOk = TRUE
    /\ focus = NoFocus
    /\ focusTimer = <<>>
    /\ lastArg = NoPosition
    /\ initPc = "done"
    /\ retryCount = 0
    /\ savedPreference = "unread"
    /\ loads = 0
    /\ autoSwitches = 0

CallParseQueries ==
    /\ pc = "parse"
    /\ queries' = parseQueries(content, now)
    /\ pc' = "parsed"
    /\ UNCHANGED <<content, S, joined, rejoined, writes, textarea, textarea0>>
    /\ UNCHANGED mainVars

CallJoin ==
    /\ pc = "join"
    /\ joined' = syncCellsToAceEditor(cellsOf(S), cellEditors, isNotebookMode, buffer)
    /\ pc' = "split"
    /\ UNCHANGED <<content, S, queries, rejoined, writes, textarea, textarea0>>
    /\ UNCHANGED mainVars

CallSplit ==
    /\ pc = "split"
    /\ queries' = parseQueries(joined, now)
    /\ pc' = "rejoin"
    /\ UNCHANGED <<content, S, joined, rejoined, writes, textarea, textarea0>>
    /\ UNCHANGED mainVars

CallRejoin ==
    /\ pc = "rejoin"
    /\ rejoined' = syncCellsToAceEditor(queries, cellEditors, isNotebookMode, joined)
    /\ pc' = "done"
    /\ UNCHANGED <<content, S, joined, queries, writes, textarea, textarea0>>
    /\ UNCHANGED mainVars

\* two calls of syncCellsToAceEditor in a row, the cells unchanged
CallResync ==
    /\ pc = "resync"
    /\ joined' = syncCellsToAceEditor(cellsOf(S), cellEditors, isNotebookMode, content)
    /\ writes' = writes + (IF setValueCalled(cellsOf(S), cellEditors, isNotebookMode, content)
                           THEN 1 ELSE 0)
    /\ pc' = "resync2"
    /\ UNCHANGED <<content, S, queries, rejoined, textarea, textarea0>>
    /\ UNCHANGED mainVars

CallResyncAgain ==
    /\ pc = "resync2"
    /\ rejoined' = syncCellsToAceEditor(cellsOf(S), cellEditors, isNotebookMode, joined)
    /\ writes' = writes + (IF setValueCalled(cellsOf(S), cellEditors, isNotebookMode, joined)
                           THEN 1 ELSE 0)
    /\ pc' = "resynced"
    /\ UNCHANGED <<content, S, joined, queries, textarea, textarea0>>
    /\ UNCHANGED mainVars

\* Ctrl+/ in the fallback textarea of cell 0: handleKeydown calls toggleSQLComment
CallToggleSQLComment ==
    /\ pc \in {"toggle", "toggled"}
    /\ textarea' = toggleSQLComment(textarea)
    /\ textareas' = [textareas EXCEPT ![0] = textarea'.value]
    /\ debounceTimer' = <<[index |-> 0, content |-> textarea'.value]>>
    /\ focus' = 0
    /\ pc' = IF pc = "toggle" THEN "toggled" ELSE "toggledTwice"
    /\ lastOp' = "toggleSQLComment"
    /\ UNCHANGED <<content, S, joined, queries, rejoined, writes, textarea0>>
    /\ UNCHANGED <<cells, buffer, isNotebookMode, cellEditors, renderPending, now,
                   windowAce, idsObserved, uiObserved, uiVars, focusTimer, lastArg,
                   initVars, runVars, saver, besideVars>>

NextFn ==
    \/ CallParseQueries
    \/ CallJoin
    \/ CallSplit
    \/ CallRejoin
    \/ CallResync
    \/ CallResyncAgain
    \/ CallToggleSQLComment

SpecFn == InitFn /\ [][NextFn]_vars

(***************************************************************************)
(* Reference definitions used by the properties                            *)
(***************************************************************************)
IsBlank(s) == \A k \in 1..Len(s) : s[k] \in Whitespace

\* s without its leading and trailing whitespace
Stripped(s) ==
    IF IsBlank(s) THEN <<>>
    ELSE LET ink == {k \in 1..Len(s) : s[k] \notin Whitespace}
             lo == CHOOSE k \in ink : \A h \in ink : k <= h
             hi == CHOOSE k \in ink : \A h \in ink : h <= k
         IN  [k \in 1..(hi - lo + 1) |-> s[lo + k - 1]]

SepPositions(s) == {k \in 1..Len(s) : s[k] = ";"}

\* the fragments of s between consecutive separators, left to right
Fragments(s) ==
    LET B == {0} \cup SepPositions(s) \cup {Len(s) + 1}
        nth(j) == CHOOSE p \in B : Cardinality({q \in B : q < p}) = j - 1
    IN  [j \in 1..(Cardinality(B) - 1) |->
            [k \in 1..(nth(j + 1) - nth(j) - 1) |-> s[nth(j) + k]]]

StrippedAll(seq) == [i \in 1..Len(seq) |-> Stripped(seq[i])]

\* the non-blank fragments of s, stripped, left to right
Statements(s) == SelectSeq(StrippedAll(Fragments(s)), nonEmpty)

Contents(cs) == [i \in 1..Len(cs) |-> cs[i].content]

\* parts[1] ; blank line ; parts[2] ; blank line ; ... parts[n]
RECURSIVE Paragraphs(_, _)
Paragraphs(parts, n) ==
    IF n = 0 THEN <<>>
    ELSE IF n = 1 THEN parts[1]
    ELSE Paragraphs(parts, n - 1) \o <<";", "\n", "\n">> \o parts[n]

\* the projection of a sequence of texts into the buffer
Projection(texts) ==
    LET kept == SelectSeq(StrippedAll(texts), nonEmpty)
    IN  Paragraphs(kept, Len(kept))

\* what the Joiner reads for each cell: the registered editor of its index, else the stored content
Resolved(cs, editors) ==
    [i \in 1..Len(cs) |->
        IF (i - 1) \in DOMAIN editors THEN editors[i - 1] ELSE cs[i].content]

\* the text shown by the editing surface of each cell, once rendering has settled
Live(cs, editors, areas) ==
    [i \in 1..Len(cs) |->
        IF (i - 1) \in DOMAIN areas THEN areas[i - 1] ELSE editors[i - 1]]

(***************************************************************************)
(* Properties                                                              *)
(***************************************************************************)

\* C1: parseQueries returns, as cells in left-to-right order, exactly the
\* fragments between the separators of the buffer, each stripped of its
\* surrounding whitespace, without the fragments that are blank.
C1_SplitterContract ==
    pc = "parsed" => Contents(queries) = Statements(content)

\* a buffer with an empty fragment between two statements has been split
C1_Witness ==
    /\ pc = "parsed"
    /\ Cardinality(SepPositions(content)) = 2
    /\ Len(queries) = 2
    /\ \E i \in 1..Len(Fragments(content)) : Fragments(content)[i] # Stripped(Fragments(content)[i])

\* the handlers that end with a Joiner pass and stay in NOTEBOOK mode
JoinerOps ==
    {"addNewCell", "copyCell", "deleteCell", "executeCell", "updateCellContent"}

\* C2: a Joiner pass made in NOTEBOOK mode leaves the buffer equal to the
\* resolved contents of the cells (registered editor of the index, else the
\* stored content), stripped, the blank ones dropped, in order, joined by
\* ';' and a blank line.  The pass made on leaving NOTEBOOK mode is followed
\* by the release of the editors, so it is observed where there are none.
C2_JoinerPass ==
    /\ (isNotebookMode /\ lastOp \in JoinerOps) =>
           buffer = Projection(Resolved(cells, cellEditors))
    /\ (lastOp = "switchToTextMode" /\ ~windowAce) =>
           buffer = Projection(Resolved(cells, cellEditors))

\* a pass over three cells has dropped a blank cell between two others
C2_Witness ==
    /\ isNotebookMode
    /\ lastOp = "updateCellContent"
    /\ Len(cells) = 3
    /\ IsBlank(Resolved(cells, cellEditors)[2])
    /\ ~IsBlank(Resolved(cells, cellEditors)[1])
    /\ ~IsBlank(Resolved(cells, cellEditors)[3])
    /\ \E i \in 1..3 : Resolved(cells, cellEditors)[i] # Stripped(Resolved(cells, cellEditors)[i])

\* C3 as stated: splitting the join of S yields the stripped texts of S in
\* order, and joining the cells again yields the same buffer.
C3_Original ==
    pc = "done" => /\ Contents(queries) = StrippedAll(S)
                   /\ rejoined = joined

\* C3 as amended: splitting the join of S yields the stripped texts of S
\* that are not blank, in order, and joining the cells again yields the same
\* buffer.
C3_RoundTrip ==
    pc = "done" => /\ Contents(queries) = SelectSeq(StrippedAll(S), nonEmpty)
                   /\ rejoined = joined

\* a round trip of three texts, one blank and one padded with whitespace
C3_Witness ==
    /\ pc = "done"
    /\ Len(S) = 3
    /\ Len(queries) = 2
    /\ \E i \in 1..3 : ~IsBlank(S[i]) /\ S[i] # Stripped(S[i])

\* C4: in NOTEBOOK mode, when addNewCell, copyCell or deleteCell returns,
\* the buffer is the projection of the contents of the cells now in the
\* sequence, each cell contributing its own content once.
C4_BufferFollowsCells ==
    (isNotebookMode /\ lastOp \in {"addNewCell", "copyCell", "deleteCell"}) =>
        buffer = Projection(Contents(cells))

\* C5: after the NOTEBOOK to TEXT transition the buffer holds the text shown
\* by the editing surface of every cell, also when the debounce timer of an
\* edit has not fired yet.
C5_NoEditLostOnExit ==
    [][ (isNotebookMode /\ ~isNotebookMode') =>
            buffer' = Projection(Live(cells, cellEditors, textareas)) ]_vars

\* C6: the last edit made to a cell reaches the stored content of that cell:
\* once no debounce timer is pending, every cell's stored content is the text
\* of its editing surface.
C6_EveryCellGetsItsLastEdit ==
    (isNotebookMode /\ ~renderPending /\ debounceTimer = <<>>) =>
        Contents(cells) = Live(cells, cellEditors, textareas)

\* C7: a TEXT to NOTEBOOK transition sets the cell sequence to the statements
\* of the buffer at that moment, or to one empty cell when there are none,
\* whatever cells or timers were left from an earlier session.
C7_EnterReparses ==
    lastOp = "switchToNotebookMode" =>
        Contents(cells) = IF Statements(buffer) = <<>> THEN << <<>> >>
                          ELSE Statements(buffer)

\* NOTEBOOK mode was entered again while an edit of the earlier session was pending
C7_Witness ==
    /\ lastOp = "switchToNotebookMode"
    /\ debounceTimer # <<>>
    /\ Len(cells) = 2
    /\ debounceTimer[1].content # cells[debounceTimer[1].index + 1].content

\* C8: in NOTEBOOK mode the cell sequence is never empty; entering with a
\* buffer without statements, and deleting the only cell, leave exactly one
\* cell with empty content.
C8_NeverEmpty ==
    [][ /\ isNotebookMode' => Len(cells') >= 1
        /\ (lastOp' = "switchToNotebookMode" /\ Statements(buffer) = <<>>) =>
               Contents(cells') = << <<>> >>
        /\ (lastOp' = "deleteCell" /\ Len(cells) = 1) =>
               Contents(cells') = << <<>> >> ]_vars

\* the only cell, which was not empty, has been deleted
C8_Witness ==
    /\ isNotebookMode
    /\ lastOp = "deleteCell"
    /\ windowAce
    /\ DOMAIN cellEditors = {}
    /\ Contents(cells) = << <<>> >>
    /\ buffer = <<>>

\* C9 as stated: parseQueries yields no cell for a buffer that is blank and
\* for a buffer without separator.
C9_Original ==
    (pc = "parsed" /\ (IsBlank(content) \/ SepPositions(content) = {})) =>
        queries = <<>>

\* C9 as amended: parseQueries yields no cell for a buffer that is blank; for
\* a buffer without separator that is not blank it yields one cell, the
\* stripped buffer.
C9_BlankOrUnseparated ==
    pc = "parsed" =>
        /\ IsBlank(content) => queries = <<>>
        /\ (SepPositions(content) = {} /\ ~IsBlank(content)) =>
               Contents(queries) = <<Stripped(content)>>

\* a buffer without separator, padded with whitespace, has been split
C9_Witness ==
    /\ pc = "parsed"
    /\ SepPositions(content) = {}
    /\ ~IsBlank(content)
    /\ content # Stripped(content)
    /\ Len(queries) = 1

\* C10: no two cells of the sequence have the same id.
C10_UniqueIds ==
    \A i, j \in 1..Len(cells) : i # j => cells[i].id # cells[j].id

\* the names recorded by a request for the TEXT to NOTEBOOK transition
SwitchRequests ==
    {"switchToNotebookMode", "switchToNotebookMode:alert", "switchToNotebookMode:error"}

\* C11: when no editor handle is stored and none can be found, a request for
\* the TEXT to NOTEBOOK transition ends with the notification and changes
\* nothing: the mode stays TEXT, and the cells, the buffer, the displayed
\* surface and the persisted preference are as before.
C11_AbortWithoutEditor ==
    [][ (~aceEditor /\ ~editorInPage /\ lastOp' \in SwitchRequests) =>
            /\ lastOp' = "switchToNotebookMode:alert"
            /\ ~isNotebookMode'
            /\ UNCHANGED <<isNotebookMode, cells, buffer, originalDisplay,
                           notebookDisplay, preference>> ]_vars

\* the toggle was used after tryInitialize gave up, with a preference stored
C11_Witness ==
    /\ lastOp = "switchToNotebookMode:alert"
    /\ ~aceEditor
    /\ retryCount = maxRetries
    /\ preference = "true"
    /\ ~isNotebookMode
    /\ originalDisplay # "none"

\* C12: in every state the cell list is displayed exactly in NOTEBOOK mode
\* and the raw editor exactly in TEXT mode, and a transition abandoned on an
\* internal error leaves the cells and the buffer as they were.
C12_OneSurfaceShown ==
    [][ /\ (notebookDisplay' = "block") <=> isNotebookMode'
        /\ (originalDisplay' # "none") <=> ~isNotebookMode'
        /\ (lastOp' = "switchToNotebookMode:error") => UNCHANGED <<cells, buffer>> ]_vars

\* C13: a completed mode transition leaves the persisted preference equal to
\* the mode flag when the store accepts the write; an aborted transition
\* leaves the persisted preference as it was.
C13_PreferenceFollowsMode ==
    [][ /\ (isNotebookMode' # isNotebookMode /\ storageOk) =>
               preference' = IF isNotebookMode' THEN "true" ELSE "false"
        /\ (lastOp' \in {"switchToNotebookMode:alert", "switchToNotebookMode:error"}) =>
               preference' = preference ]_vars

\* the mode restored at startup has been left again
C13_Witness ==
    /\ lastOp = "switchToTextMode"
    /\ savedPreference = "true"
    /\ autoSwitches = 1
    /\ preference = "false"
    /\ ~isNotebookMode

C15_ResyncIdempotent ==
    pc = "resynced" =>
        /\ rejoined = joined
        /\ joined = Projection(S)
        /\ writes = IF content = Projection(S) THEN 0 ELSE 1

\* two passes over three cells, one of them blank, the first of which wrote
C15_Witness ==
    /\ pc = "resynced"
    /\ Len(S) = 3
    /\ \E i \in 1..3 : IsBlank(S[i])
    /\ content # <<>>
    /\ writes = 1

\* C16: addNewCell(position) inserts one cell with empty content at index
\* position (at the end without a position), every cell that was there keeps
\* its id, its content and its order, and the cell focused afterwards is the
\* new one.
C16_AddInsertsAndFocuses ==
    [][ /\ (lastOp' = "addNewCell"
            /\ (lastArg' = NoPosition \/ lastArg' \in 0..Len(cells))) =>
               LET at == IF lastArg' = NoPosition THEN Len(cells) ELSE lastArg'
               IN  /\ Len(cells') = Len(cells) + 1
                   /\ cells'[at + 1].content = <<>>
                   /\ \A i \in 1..Len(cells) :
                          cells'[IF i <= at THEN i ELSE i + 1] = cells[i]
        /\ (lastOp' = "focus:addNewCell"
            /\ (lastArg' = NoPosition \/ lastArg' \in 0..(Len(cells') - 1))) =>
               focus' = IF lastArg' = NoPosition THEN Len(cells') - 1 ELSE lastArg' ]_vars

\* C17: copyCell(index) inserts, right after index, one cell whose content
\* is the value of the registered editor of index, else the stored content
\* of the cell at index; the other cells keep their content and order, and
\* the cell focused afterwards is the copy.
C17_CopyInsertsAndFocuses ==
    [][ /\ (lastOp' = "copyCell") =>
               LET index == lastArg'
               IN  /\ Len(cells') = Len(cells) + 1
                   /\ cells'[index + 2].content = Resolved(cells, cellEditors)[index + 1]
                   /\ \A i \in 1..Len(cells) :
                          cells'[IF i <= index + 1 THEN i ELSE i + 1] = cells[i]
        /\ (lastOp' = "focus:copyCell") => focus' = lastArg' + 1 ]_vars

\* C18: copyCell and deleteCell called with an index outside 0..length-1
\* change neither the cells, the buffer, the registered editors, the
\* textareas nor the focus, and start no render and no focus request.
C18_InvalidIndexIgnored ==
    [][ (/\ lastOp' \in {"copyCell", "copyCell:ignored", "deleteCell", "deleteCell:ignored"}
         /\ (lastArg' < 0 \/ lastArg' >= Len(cells))) =>
            UNCHANGED <<cells, buffer, cellEditors, textareas, focus, focusTimer,
                        renderPending>> ]_vars

\* deleteCell was called with the index one past the last of two cells, one focused
C18_Witness ==
    /\ lastOp = "deleteCell:ignored"
    /\ lastArg = Len(cells)
    /\ Len(cells) = 2
    /\ focus = 1
    /\ ~renderPending

\* C19: deleteCell(i) on more than one cell leaves one focus request, for
\* index i-1 when i > 0 and for index 0 when i = 0, an index inside the cells
\* that remain; when that request has run, the focus is on that index.
\* deleteCell on the only cell leaves no focus request of its own.
C19_DeleteFocusRule ==
    [][ /\ (lastOp' = "deleteCell" /\ Len(cells) > 1) =>
               /\ Len(focusTimer') = 1
               /\ focusTimer'[1].op = "deleteCell"
               /\ focusTimer'[1].target = IF lastArg' > 0 THEN lastArg' - 1 ELSE 0
               /\ focusTimer'[1].target \in 0..(Len(cells') - 1)
        /\ (lastOp' = "deleteCell" /\ Len(cells) = 1) =>
               \A k \in 1..Len(focusTimer') : focusTimer'[k].op # "deleteCell"
        /\ (lastOp' = "focus:deleteCell" /\ focusTimer[1].op = "deleteCell") =>
               /\ focus' = focusTimer[1].target
               /\ focus' = IF lastArg > 0 THEN lastArg - 1 ELSE 0
               /\ focus' \in 0..(Len(cells') - 1) ]_vars

\* the first of three cells was deleted and the cell that shifted up is focused
C19_Witness ==
    /\ lastOp = "focus:deleteCell"
    /\ lastArg = 0
    /\ Len(cells) = 2
    /\ focus = 0

\* C20: navigateToPreviousCell and navigateToNextCell leave the cells and the
\* buffer unchanged; they move the focus to the adjacent index, inside the
\* sequence, when the mode is NOTEBOOK, a cell holds the focus and it is not
\* the first (previous) or the last (next), and leave the focus otherwise.
C20_NavigateMovesFocusOnly ==
    [][ /\ (lastOp' = "navigateToPreviousCell") =>
               /\ UNCHANGED <<cells, buffer, cellEditors, textareas>>
               /\ focus' = IF isNotebookMode /\ focus # NoFocus /\ focus > 0
                           THEN focus - 1 ELSE focus
               /\ (focus' # focus) => focus' \in 0..(Len(cells) - 1)
        /\ (lastOp' = "navigateToNextCell") =>
               /\ UNCHANGED <<cells, buffer, cellEditors, textareas>>
               /\ focus' = IF isNotebookMode /\ focus # NoFocus /\ focus < Len(cells) - 1
                           THEN focus + 1 ELSE focus
               /\ (focus' # focus) => focus' \in 0..(Len(cells) - 1) ]_vars

\* the focus is on the last of three cells after navigateToNextCell
C20_Witness ==
    /\ lastOp = "navigateToNextCell"
    /\ isNotebookMode
    /\ Len(cells) = 3
    /\ focus = 2

\* the lines of a text, and the position of the first character of line i (from 0)
LinesOf(text) == split(text, "\n")

LineFirst(text, i) == Len(join(SubSeq(LinesOf(text), 1, i), <<"\n">>)) + (IF i > 0 THEN 1 ELSE 0)

\* the positions of line i: its characters and the line break that ends it
LinePositions(text, i) == LineFirst(text, i)..(LineFirst(text, i) + Len(LinesOf(text)[i + 1]))

\* the lines touched by the selection of a textarea; the line that holds the
\* cursor when the selection is empty
Touched(area) ==
    {i \in 0..(Len(LinesOf(area.value)) - 1) :
        IF area.selectionStart = area.selectionEnd
        THEN area.selectionStart \in LinePositions(area.value, i)
        ELSE \E p \in area.selectionStart..(area.selectionEnd - 1) :
                 p \in LinePositions(area.value, i)}

\* the leading whitespace of a line and what follows it
Indent(line) ==
    SubSeq(line, 1, CHOOSE n \in 0..Len(line) :
                        /\ \A k \in 1..n : line[k] \in Whitespace
                        /\ n < Len(line) => line[n + 1] \notin Whitespace)

Body(line) == SubSeq(line, Len(Indent(line)) + 1, Len(line))

\* a text without the comment token and the one space that may follow it
Untoken(text) ==
    IF Len(text) >= 3 /\ text[3] = " " THEN SubSeq(text, 4, Len(text))
    ELSE SubSeq(text, 3, Len(text))

\* C21 as stated: the token is looked for, removed and added at the very
\* beginning of the line.
C21_Original ==
    pc = "toggled" =>
        LET before == LinesOf(textarea0.value)
            range == Touched(textarea0)
            commented(line) == Len(line) >= 2 /\ SubSeq(line, 1, 2) = <<"-", "-">>
            all == \A i \in range : IsBlank(before[i + 1]) \/ commented(before[i + 1])
        IN  LinesOf(textarea.value) =
                [k \in 1..Len(before) |->
                    IF (k - 1) \notin range \/ IsBlank(before[k]) THEN before[k]
                    ELSE IF all THEN Untoken(before[k])
                    ELSE <<"-", "-", " ">> \o before[k]]

\* C21: on the lines touched by the selection (the line of the cursor when
\* the selection is empty), when every non-blank line has '--' as its first
\* non-whitespace characters, the token and one space that may follow it are
\* removed from each, the indentation kept; otherwise '-- ' is inserted
\* before the first non-whitespace character of each non-blank line; blank
\* lines and the lines outside the range are unchanged.
C21_CommentToggle ==
    pc = "toggled" =>
        LET before == LinesOf(textarea0.value)
            range == Touched(textarea0)
            commented(line) == Len(Body(line)) >= 2 /\ SubSeq(Body(line), 1, 2) = <<"-", "-">>
            all == \A i \in range : IsBlank(before[i + 1]) \/ commented(before[i + 1])
        IN  LinesOf(textarea.value) =
                [k \in 1..Len(before) |->
                    IF (k - 1) \notin range \/ IsBlank(before[k]) THEN before[k]
                    ELSE IF all THEN Indent(before[k]) \o Untoken(Body(before[k]))
                    ELSE Indent(before[k]) \o <<"-", "-", " ">> \o Body(before[k])]

\* a selection over two lines, one of them indented, has been toggled
C21_Witness ==
    /\ pc = "toggled"
    /\ textarea0.selectionStart < textarea0.selectionEnd
    /\ Cardinality(Touched(textarea0)) = 2
    /\ \E i \in Touched(textarea0) :
           LET line == LinesOf(textarea0.value)[i + 1]
           IN  Indent(line) # <<>> /\ ~IsBlank(line)
    /\ textarea.value # textarea0.value

\* C22 as stated: two toggles with the cursor on a line give back every line.
C22_Original ==
    (pc = "toggledTwice" /\ textarea0.selectionStart = textarea0.selectionEnd) =>
        textarea.value = textarea0.value

\* C22: two toggles in a row with the cursor on a line that is blank or whose
\* first non-whitespace characters are not '--' give back the text exactly.
C22_RoundTrip ==
    (/\ pc = "toggledTwice"
     /\ textarea0.selectionStart = textarea0.selectionEnd
     /\ \A i \in Touched(textarea0) :
            LET body == Body(LinesOf(textarea0.value)[i + 1])
            IN  ~(Len(body) >= 2 /\ SubSeq(body, 1, 2) = <<"-", "-">>)) =>
        textarea.value = textarea0.value

\* an indented line with text, between two other lines, was toggled twice
C22_Witness ==
    /\ pc = "toggledTwice"
    /\ textarea0.selectionStart = textarea0.selectionEnd
    /\ Len(LinesOf(textarea0.value)) = 3
    /\ Touched(textarea0) = {1}
    /\ LET line == LinesOf(textarea0.value)[2]
       IN  Indent(line) # <<>> /\ Body(line) = <<"a">>
    /\ textarea.value = textarea0.value

\* C23: after the toggle the selection starts where it started, ends at the
\* old end moved by the change of length (not before position 0), and lies
\* inside the new text with its start not after its end.
C23_SelectionWellFormed ==
    pc = "toggled" =>
        LET lengthDiff == Len(textarea.value) - Len(textarea0.value)
        IN  /\ textarea.selectionStart = textarea0.selectionStart
            /\ textarea.selectionEnd = max(0, textarea0.selectionEnd + lengthDiff)
            /\ 0 <= textarea.selectionStart
            /\ textarea.selectionStart <= textarea.selectionEnd
            /\ textarea.selectionEnd <= Len(textarea.value)

\* C24: when the chain of runAllCells has ended, every cell it collected
\* that is still in the sequence has been executed exactly once, and the
\* k-th step executed the k-th collected cell or, that cell being gone, none.
C24_RunAllExecutesEach ==
    (nonEmptyCells # <<>> /\ Len(executed) = Len(nonEmptyCells)) =>
        /\ \A k \in 1..Len(nonEmptyCells) :
               (\E i \in 1..Len(cells) : cells[i].id = nonEmptyCells[k].cell.id) =>
                   Cardinality({j \in 1..Len(executed) :
                                    executed[j].id = nonEmptyCells[k].cell.id}) = 1
        /\ \A k \in 1..Len(executed) :
               executed[k].id \in {nonEmptyCells[k].cell.id, NoCell}

\* the number of calls the retry budget of a loop allows; the wait for the
\* data-source selector is given the largest budget of the other loops
Budget(loop) ==
    CASE loop = "notebook" -> maxRetries
      [] loop = "querySaver" -> MAX_RETRIES + 1
      [] loop = "contentScript" -> maxRetriesElements + 1
      [] loop = "completions" -> maxAttempts
      [] OTHER -> maxRetriesElements + 1

\* C25: every polling retry loop stops once its target is found or its retry
\* budget is used up: the editor discovery of the notebook and of the query
\* saver, the content script's wait for the page elements, the completion
\* fetch and the wait for the data-source selector each make a bounded number
\* of calls, and no call is scheduled once the target has been found
C25_RetryLoopsStop ==
    /\ retryCount <= maxRetries
    /\ poll.attempts <= Budget(poll.loop)
    /\ (poll.found => ~poll.timer)
    /\ (poll.attempts = Budget(poll.loop) => ~poll.timer)

\* the loops that carry a retry budget keep to it
BudgetedLoopsStop ==
    poll.loop # "dataSource" => C25_RetryLoopsStop

\* the handlers that read the saved query
RestoreOps == {"setupQuerySaver", "focus", "restoreSavedQuery", "restoreSavedQuery:force"}

\* C26: a failure of the preference store is absorbed. While local storage
\* throws, loading the mode preference gives no preference, reading the saved
\* query gives null (so nothing is restored), and the handler that made the
\* access still runs to its end: a mode transition changes the mode and the
\* displayed surface, a save clears its timer, and the stored values stay as
\* they were.
C26_StoreFailureAbsorbed ==
    [][ ~storageOk =>
          /\ (loads' = loads + 1) => (savedPreference' = "none" /\ initPc' = "done")
          /\ (lastOp' \in RestoreOps) => buffer' = buffer
          /\ (lastOp' = "switchToNotebookMode") =>
                 (isNotebookMode' /\ notebookDisplay' = "block" /\ cells' # <<>>)
          /\ (lastOp' = "switchToTextMode") =>
                 (~isNotebookMode' /\ originalDisplay' = "block")
          /\ (lastOp' = "debounceTimerFires") => saver'.debounceTimer = <<>>
          /\ (lastOp' = "pasteTimerFires") => ~saver'.pasteTimer
          /\ preference' = preference
          /\ savedQuery' = savedQuery ]_vars

\* with a store that throws and holds a query and the NOTEBOOK preference, the
\* blank editor was focused, a save ran and the mode was changed by hand
C26_Witness ==
    /\ ~storageOk
    /\ savedQuery # <<>>
    /\ preference = "true"
    /\ savedPreference = "none"
    /\ saver.isListenerAttached
    /\ saver.writes = 0
    /\ saver.debounceTimer = <<>>
    /\ isNotebookMode
    /\ lastOp = "switchToNotebookMode"

\* C27: the transition into NOTEBOOK mode is performed only while the mode
\* flag is TEXT: a request for it that runs while the flag is NOTEBOOK (the
\* deferred restore of a startup, also of a second initialization) leaves the
\* cell sequence as it is and does not split the buffer again.
C27_NoReentry ==
    [][ (isNotebookMode /\ lastOp' \in SwitchRequests) => cells' = cells ]_vars

\* what saveQuery leaves in the store for a text: its trimmed form, or no item
Stored(text) == IF IsBlank(text) THEN <<>> ELSE <<Stripped(text)>>

\* the store writes are made by the two timers of the query saver
SaveTimers == {"debounceTimerFires", "pasteTimerFires"}

\* C28 as stated: when the pending save runs, the stored query is the
\* editor's trimmed content, or none when it is blank; the changes made
\* since the store last followed the editor produce one write, with the last
\* value; no save puts an older value over a newer one.
C28_Original ==
    [][ /\ (lastOp' \in SaveTimers) => savedQuery' = Stored(buffer)
        /\ saver'.writes <= 1 ]_vars

\* C28: auto-save follows the editor while local storage accepts writes. A
\* change of the editor writes nothing and leaves one pending save that holds
\* the editor's content; when the debounce timer runs, the store holds the
\* editor's trimmed content, or nothing when it is blank, and no save is
\* pending; a paste makes one more write, of the content the editor has 10 ms
\* later; every write stores the editor's current content, so no save puts an
\* older value over a newer one.
C28_AutoSaveFollowsEditor ==
    [][ /\ (storageOk /\ lastOp' \in SaveTimers) => savedQuery' = Stored(buffer)
        /\ (lastOp' \notin SaveTimers) => savedQuery' = savedQuery
        /\ (saver'.isListenerAttached /\ buffer' # buffer) =>
               saver'.debounceTimer = <<buffer'>>
        /\ (saver'.debounceTimer # <<>>) => saver'.debounceTimer = <<buffer'>>
        /\ (lastOp' = "debounceTimerFires") =>
               (saver.debounceTimer # <<>> /\ saver'.debounceTimer = <<>>
                    /\ saver'.writes = saver.writes + (IF storageOk THEN 1 ELSE 0))
        /\ saver'.writes <= 2 ]_vars

\* the changes ended with a blank editor and their one save has run: nothing
\* is stored and nothing is pending
C28_Witness ==
    /\ lastOp = "debounceTimerFires"
    /\ storageOk
    /\ trim(buffer) = <<>>
    /\ savedQuery = <<>>
    /\ saver.writes = 1
    /\ saver.debounceTimer = <<>>
    /\ ~saver.pasteTimer

\* C29: restoreSavedQuery without forceRestore (at setup, on focus, or called
\* directly) writes the saved query into the editor only when the editor's
\* content is blank: it leaves the editor unchanged when the content is
\* non-blank or when there is no saved query, and with a blank editor, a
\* saved query that can be read and an editor handle it sets the editor to
\* the saved query.
C29_RestoreOnlyIntoBlank ==
    [][ (lastOp' \in {"setupQuerySaver", "focus", "restoreSavedQuery"}) =>
          /\ (~IsBlank(buffer) \/ savedQuery = <<>>) => buffer' = buffer
          /\ (buffer' # buffer) => (IsBlank(buffer) /\ <<buffer'>> = savedQuery)
          /\ (IsBlank(buffer) /\ savedQuery # <<>> /\ storageOk /\ saver'.aceEditor) =>
                 <<buffer'>> = savedQuery ]_vars

\* the blank editor got the focus and now holds the saved query
C29_Witness ==
    /\ lastOp = "focus"
    /\ savedQuery # <<>>
    /\ <<buffer>> = savedQuery
    /\ saver.debounceTimer = <<buffer>>

\* C30: selecting a table in the palette closes the palette and executes
\* 'SELECT * FROM <table> LIMIT 100' through the notebook module or, when
\* that is not available, places this text in the main editor buffer.
C30_SelectRunsTableQuery ==
    [][ (lastOp' = "selectTable") =>
          /\ ~quickSearchState'.isOpen
          /\ \E i \in 1..Len(quickSearchState.filteredTables) :
                LET query == selectQuery(quickSearchState.filteredTables[i])
                IN  \/ executedQuery' = Append(executedQuery, query)
                    \/ buffer' = query ]_vars


\* C31: every newly rendered result table starts with all of its columns
\* visible: when processAllTables has given the header cells of a newly
\* rendered table their eye icons, none of these cells is hidden, whatever
\* columns were hidden before
C31_NewTableAllVisible ==
    [][lastOp' = "processAllTables" =>
          \A i \in 1..Len(columnVisibilityState.table) :
              columnVisibilityState.table[i].id = <<>> =>
                  ~columnVisibilityState'.table[i].hidden]_vars

\* C32: in NOTEBOOK mode, whenever neither the debounce timer nor the render
\* timer is pending, the stored content of every cell is the text shown by
\* the editing surface of that cell, and the buffer is the projection of
\* these texts.
C32_QuiescentConsistency ==
    (isNotebookMode /\ ~renderPending /\ debounceTimer = <<>>) =>
        /\ \A i \in 1..Len(cells) :
              cells[i].content = Live(cells, cellEditors, textareas)[i]
        /\ buffer = Projection(Live(cells, cellEditors, textareas))

\* C33: a pending edit stays with the cell it was typed in: when addNewCell,
\* copyCell or deleteCell changes the sequence while the debounce timer of
\* an edit is pending, the index the timer will write to denotes afterwards
\* the cell it denoted before, unless the timer is cancelled or its index
\* is left without a cell.
C33_EditStaysWithItsCell ==
    [][ (/\ debounceTimer # <<>>
         /\ debounceTimer[1].index < Len(cells)
         /\ lastOp' \in {"addNewCell", "copyCell", "deleteCell"}
         /\ debounceTimer' # <<>>
         /\ debounceTimer'[1].index < Len(cells'))
        => cells'[debounceTimer'[1].index + 1] = cells[debounceTimer[1].index + 1] ]_vars

\* C34: once rendering has settled in NOTEBOOK mode with Ace cell editors,
\* the registry cellEditors holds an editor for each cell index 0..n-1 of
\* the sequence and no entry for an index >= n.
C34_RegistryMatchesCells ==
    (isNotebookMode /\ windowAce /\ ~renderPending) =>
        DOMAIN cellEditors = 0..(Len(cells) - 1)

\* C35: executing a cell does not change the text shown in any cell: when
\* the render started by executeCell settles, the Ace editor of every cell
\* shows the text that the editor of that cell showed when executeCell was
\* called, also a text typed within the debounce window.
C35_ExecuteKeepsShownText ==
    [][ (lastOp = "executeCell" /\ lastOp' = "createCellAceEditor" /\ windowAce) =>
            \A i \in 0..(Len(cells) - 1) :
                i \in DOMAIN cellEditors => cellEditors'[i] = cellEditors[i] ]_vars

\* C36 as stated: the NOTEBOOK to TEXT transition that follows an entry with
\* no cell operation in between leaves the buffer exactly as it was.
C36_Original ==
    [][ (isNotebookMode /\ ~isNotebookMode') => buffer' = buffer ]_vars

\* C36: entering NOTEBOOK mode and returning to TEXT mode with nothing in
\* between but the rendering of the cells leaves the buffer as the
\* projection of its fragments: the non-blank fragments between its
\* separators, stripped and joined by a separator and a blank line.
C36_RoundTripNormalises ==
    [][ (isNotebookMode /\ ~isNotebookMode') =>
            buffer' = Projection(Fragments(buffer)) ]_vars

\* a round trip has rewritten ' a' as 'a'
C36_Witness ==
    /\ lastOp = "switchToTextMode"
    /\ ~isNotebookMode
    /\ buffer = <<"a">>
    /\ cells = <<[id |-> <<>>, content |-> <<"a">>]>>

\* C37: while the palette is open, selectedIndex is -1 when the filtered
\* list is empty and otherwise an index of the filtered list; when the
\* palette is closed, selectedIndex is -1 and the filtered list is empty.
C37_SelectionWithinList ==
    LET filteredTables == quickSearchState.filteredTables
        selectedIndex == quickSearchState.selectedIndex
    IN  IF quickSearchState.isOpen
        THEN IF Len(filteredTables) = 0
             THEN selectedIndex = -1
             ELSE selectedIndex \in 0..(Len(filteredTables) - 1)
        ELSE selectedIndex = -1 /\ filteredTables = <<>>

\* C38: a fetch that was in flight when the data source changed never
\* repopulates the completion data or the cache: when the then-callback of
\* a fetch that started before the last change runs, completionData and
\* the cache stay as handleDataSourceChange left them.
C38_StaleFetchDiscarded ==
    [][ \A fetch \in dataSourceMonitoring.fetches \ dataSourceMonitoring'.fetches :
            fetch.started < dataSourceMonitoring.changes =>
                completionData' = completionData ]_vars

====
